---- MODULE Spec2Model ----
(***************************************************************************)
(* GatewayClient of src/src/handlers/transcription.ts (lines 357-714):     *)
(* the WebSocket client with the signed connect handshake, the pending     *)
(* request table, streaming sendMessage calls and the reconnect loop.      *)
(*                                                                         *)
(* One action is one macrotask of the Node event loop (a timer callback,   *)
(* a socket event, or a public method call) together with the promise      *)
(* continuations (microtasks) it releases.  Timers fire in any order; the  *)
(* clock `now` only advances in steps of TickMs, which is enough for the   *)
(* single comparison the code makes against lastConnectedAt.               *)
(*                                                                         *)
(* Handlers are operators from a state record to a state record, so that   *)
(* the sequential code of a handler is a composition of operators.         *)
(* Sockets and requests are JavaScript objects: an object nothing can      *)
(* reach any more is collected at the end of the step and its identifier   *)
(* is free again (Collect); of a call that returned only what it returned  *)
(* is kept.                                                                *)
(***************************************************************************)
EXTENDS Integers, FiniteSets, Sequences, TLC

\* ---- bounds of the model ------------------------------------------------
MaxSock == 2
MaxReq == 2
MaxCalls == 2
MaxChatCalls == 1
MaxAttempts == 2
MaxTicks == 1
MaxContent == 2
MaxSpeakers == 2
MaxQueries == 2
MaxSessions == 2
MaxOldTimers == 1
TickMs == 60001

\* ---- constants of the program -------------------------------------------
reconnectBackoffMs == 1000
maxBackoffMs == 30000
ResetAfterMs == 60000
MAX_RESPONSE_LENGTH == 150

Sockets == 1..MaxSock
Reqs == 1..MaxReq
Calls == 1..MaxCalls
RunIds == 1..MaxCalls
Texts == {"", "A", "AB"}
NoResponse == "No response"
\* the `error` field of response envelopes with ok = false; "" is a field
\* the envelope does not have
Errors ==
    {[code |-> "NOT_PAIRED", message |-> "device not paired"],
     [code |-> "OTHER", message |-> ""],
     [code |-> "UNAUTHORIZED", message |-> "device is NOT_PAIRED"]}

\* response envelopes {ok, payload, error: {code, message}}
Responses ==
    {[ok |-> TRUE, payload |-> "hello-ok", code |-> "", message |-> ""]}
    \cup {[ok |-> FALSE, payload |-> "", code |-> e.code, message |-> e.message] :
             e \in Errors}

PairingRequired == "PAIRING_REQUIRED: Check OpenClaw web UI to approve the glasses app"
Streams == {"assistant", "lifecycle"}
ChatStates == {"final", "delta"}

VARIABLES
    ws,                 \* this.ws: current socket, 0 = null
    connected,          \* this.connected
    connectPromise,     \* this.connectPromise: attempt id, 0 = null
    pending,            \* this.pending: keys of the Map
    reconnectAttempts,  \* this.reconnectAttempts
    reconnecting,       \* this.reconnecting
    lastConnectedAt,    \* this.lastConnectedAt
    now,                \* Date.now()
    sock,               \* readyState of every socket
    prom,               \* state of the promise created by connect(), per attempt
    connTimers,         \* attempts whose 15 s timer is armed
    challenged,         \* attempts whose socket received connect.challenge
    reqs,               \* per request id: promise state, owner attempt, socket written to
    reqTimers,          \* request ids whose deadline timer is armed
    reconnTimers,       \* number of armed reconnect timers
    reconnectDelay,     \* `delay` of the latest scheduleReconnect()
    fnAwait,            \* per attempt: reconnect callbacks suspended in `await this.connect()`
    calls,              \* per sendMessage call: its closure state
    failStreak,         \* failed reconnect attempts since the last successful handshake
    lastPeriodLong,     \* the last connected period lasted more than ResetAfterMs
    sessionKey,         \* this.sessionKey
    signIn,             \* what sendSignedConnect() reads: device, role, scopes, clock, token, nonce
    signMsg,            \* its signatureMessage, "" before it has run
    tokenFile,          \* tokens.operator.token of device-auth.json, Null if there is none
    app                 \* the glasses session: state machine, query in flight, display, identity file

vars == <<ws, connected, connectPromise, pending, reconnectAttempts,
          reconnecting, lastConnectedAt, now, sock, prom, connTimers,
          challenged, reqs, reqTimers, reconnTimers, reconnectDelay,
          fnAwait, calls, failStreak, lastPeriodLong, sessionKey, signIn,
          signMsg, tokenFile, app>>

\* the variables of the GatewayClient
clientVars == <<ws, connected, connectPromise, pending, reconnectAttempts,
                reconnecting, lastConnectedAt, now, sock, prom, connTimers,
                challenged, reqs, reqTimers, reconnTimers, reconnectDelay,
                fnAwait, calls, failStreak, lastPeriodLong, sessionKey,
                tokenFile>>

\* ---- helpers ------------------------------------------------------------
Min(a, b) == IF a < b THEN a ELSE b

\* String.prototype.includes and String.prototype.startsWith
Includes(text, part) ==
    \E i \in 1..(Len(text) - Len(part) + 1) : SubSeq(text, i, i + Len(part) - 1) = part

StartsWith(text, part) ==
    Len(part) <= Len(text) /\ SubSeq(text, 1, Len(part)) = part

RECURSIVE Pow2(_)
Pow2(n) == IF n = 0 THEN 1 ELSE 2 * Pow2(n - 1)

MinOf(S) == CHOOSE x \in S : \A y \in S : x <= y

RECURSIVE SumOver(_, _)
SumOver(f, S) ==
    IF S = {} THEN 0
    ELSE LET a == CHOOSE x \in S : TRUE IN f[a] + SumOver(f, S \ {a})

\* JavaScript null where the program expects a string
Null == "null"

\* the sessions of the glasses, and the session key queryOpenClaw passes to
\* getGatewayClient for each (part_000 line 64)
Sessions == 1..MaxSessions
SessionKey(k) == "glasses-" \o ToString(k)

\* the default of the constructor's parameter (line 375)
DefaultSessionKey == "glasses-session"

\* the closure of a sendMessage() call.  session is the glasses session the
\* call was made for (0: a direct user of the client), sentKey the sessionKey
\* written in its chat.send, foreign whether its eventHandler has applied an
\* event that carried another session key than the one it sent
NewCall == [pc |-> "idle", awaiting |-> 0, listener |-> 0, sent |-> 0,
            runId |-> 0, fullText |-> "", completed |-> FALSE, timer |-> FALSE,
            outcome |-> "none", result |-> "", content |-> <<>>,
            session |-> 0, sentKey |-> Null, foreign |-> FALSE]

\* of a call that returned, only what it returned is kept
Returned(cl) ==
    [NewCall EXCEPT !.pc = "returned", !.outcome = cl.outcome, !.result = cl.result,
                    !.content = cl.content, !.foreign = cl.foreign]

\* a slot of the request table; token and signed are auth.token and the
\* signature message of the 'connect' request written in it
NewReq == [state |-> "none", owner |-> 0, sentOn |-> 0, settles |-> 0,
           token |-> Null, signed |-> ""]

\* the state as one record: the state every handler starts from
Cur ==
    [ws |-> ws, connected |-> connected, connectPromise |-> connectPromise,
     pending |-> pending, reconnectAttempts |-> reconnectAttempts,
     reconnecting |-> reconnecting, lastConnectedAt |-> lastConnectedAt,
     now |-> now, sock |-> sock, prom |-> prom, connTimers |-> connTimers,
     challenged |-> challenged, reqs |-> reqs, reqTimers |-> reqTimers,
     reconnTimers |-> reconnTimers, reconnectDelay |-> reconnectDelay,
     fnAwait |-> fnAwait, calls |-> calls, failStreak |-> failStreak,
     lastPeriodLong |-> lastPeriodLong, sessionKey |-> sessionKey,
     tokenFile |-> tokenFile]

Install(n) ==
    /\ ws' = n.ws
    /\ connected' = n.connected
    /\ connectPromise' = n.connectPromise
    /\ pending' = n.pending
    /\ reconnectAttempts' = n.reconnectAttempts
    /\ reconnecting' = n.reconnecting
    /\ lastConnectedAt' = n.lastConnectedAt
    /\ now' = n.now
    /\ sock' = n.sock
    /\ prom' = n.prom
    /\ connTimers' = n.connTimers
    /\ challenged' = n.challenged
    /\ reqs' = n.reqs
    /\ reqTimers' = n.reqTimers
    /\ reconnTimers' = n.reconnTimers
    /\ reconnectDelay' = n.reconnectDelay
    /\ fnAwait' = n.fnAwait
    /\ calls' = n.calls
    /\ failStreak' = n.failStreak
    /\ lastPeriodLong' = n.lastPeriodLong
    /\ sessionKey' = n.sessionKey
    /\ tokenFile' = n.tokenFile

\* the client after construction (lines 357-386), with a user that will make
\* n sendMessage() calls
InitWith(n) ==
    /\ ws = 0
    /\ connected = FALSE
    /\ connectPromise = 0
    /\ pending = {}
    /\ reconnectAttempts = 0
    /\ reconnecting = FALSE
    /\ lastConnectedAt = 0
    /\ now = 1
    /\ sock = [s \in Sockets |-> "none"]
    /\ prom = [s \in Sockets |-> "none"]
    /\ connTimers = {}
    /\ challenged = {}
    /\ reqs = [r \in Reqs |-> NewReq]
    /\ reqTimers = {}
    /\ reconnTimers = 0
    /\ reconnectDelay = 0
    /\ fnAwait = [s \in Sockets |-> 0]
    /\ calls = [c \in Calls |-> IF c <= n THEN NewCall ELSE Returned(NewCall)]
    /\ failStreak = 0
    /\ lastPeriodLong = FALSE
    /\ sessionKey = DefaultSessionKey

\* `x || ''` (lines 507, 519)
OrEmpty(x) == IF x = Null THEN "" ELSE x

\* Array.prototype.join
RECURSIVE Join(_, _)
Join(seq, sep) ==
    IF Len(seq) = 0 THEN ""
    ELSE IF Len(seq) = 1 THEN seq[1]
    ELSE seq[1] \o sep \o Join(Tail(seq), sep)

\* the scopes of line 504, and shorter lists
ScopeLists ==
    {<<"operator.admin", "operator.approvals", "operator.pairing">>, <<"a", "b">>, <<"a">>}

\* the values sendSignedConnect() builds its message from: this.device.deviceId,
\* role, scopes, Date.now(), loadDeviceAuthToken() and this.connectNonce
SignInputs ==
    [deviceId : {"d1", "d2"}, role : {"operator"}, scopes : ScopeLists,
     signedAtMs : {1000, 1001}, token : {Null, "", "t1"}, nonce : {Null, "n1", "n2"}]

DefaultSignInput ==
    [deviceId |-> "d1", role |-> "operator", scopes |-> <<"a", "b">>,
     signedAtMs |-> 1000, token |-> Null, nonce |-> "n1"]

\* a signature message with the nonce before the token
SignatureFieldsNonceFirst(in) ==
    <<"v2", in.deviceId, "cli", "backend", in.role, Join(in.scopes, ","),
      ToString(in.signedAtMs), OrEmpty(in.nonce), OrEmpty(in.token)>>

\* lines 510-520: the fields of the signature message, in order
SignatureFields(in) ==
    <<"v2", in.deviceId, "cli", "backend", in.role, Join(in.scopes, ","),
      ToString(in.signedAtMs), OrEmpty(in.token), OrEmpty(in.nonce)>>

\* lines 510-520: signatureMessage
SignatureMessage(in) == Join(SignatureFields(in), "|")

\* sendSignedConnect() has not built a message
Unsigned == signMsg = ""

\* ---- the glasses session ------------------------------------------------
\* src/src/state-machine.ts (SessionStateMachine, lines 126-293),
\* handleTranscription (src/src/handlers/transcription.ts lines 66-193) and
\* queryOpenClaw (src/unnamed/part_000 lines 59-78).  The session is a record;
\* the methods are operators from a session to a session.
Speakers == 0..MaxSpeakers          \* 0 is `undefined`
Modes == {"commanding", "conversation"}
DeviceFiles == {"missing", "unreadable", "corrupt", "valid"}
Storages == {"writable", "readonly"}

\* a string of n characters
RECURSIVE Chars(_)
Chars(n) == IF n = 0 THEN "" ELSE "x" \o Chars(n - 1)

\* what the assistant answers: short, at the display limit, just above it
ReplyTexts == {Chars(1), Chars(MAX_RESPONSE_LENGTH), Chars(MAX_RESPONSE_LENGTH + 1)}

\* a transcription event and the `mode` setting when it is handled: blank is
\* `!data.text.trim()`, noise is isLikelyBackgroundNoise() # null, wake and
\* sleep are containsTrigger() for WAKE_WORDS and SLEEP_WORDS
Transcriptions ==
    [isFinal : BOOLEAN, blank : BOOLEAN, noise : BOOLEAN, wake : BOOLEAN,
     sleep : BOOLEAN, speakerId : Speakers, mode : Modes]

WelcomeText == "Say 'Hello' to start"
ListeningText == "Listening! How can I help?"
AutoSleepText == "Auto-sleep... Say 'Hello' to wake"
SleepText == "Sleeping... Say 'Hello' to wake"
WaitText == "Please wait..."
HeardText == "heard"
ErrorText == "Error getting response"

\* createSession() (state-machine.ts lines 132-141) and onSession (index.ts
\* lines 63-67), with the identity file and the storage of this machine
NewApp(file, storage) ==
    [state |-> "IDLE", autoSleepTimer |-> FALSE, activeSpeakerId |-> 0,
     displayed |-> WelcomeText,
     useGateway |-> TRUE, gatewayClient |-> FALSE,
     deviceFile |-> file, storage |-> storage,
     query |-> "none", gatewayCalls |-> 0, cliCalls |-> 0, threw |-> FALSE,
     queries |-> 0, gatewayFailures |-> 0, inFlight |-> 0, call |-> 0,
     oldTimers |-> 0]

\* the rest of the program while the GatewayClient alone is followed
Rest == tokenFile = Null /\ app = NewApp("valid", "writable")

Init == InitWith(MaxChatCalls) /\ signIn = DefaultSignInput /\ Unsigned /\ Rest

\* a user that makes every call the model has room for
InitRuns == InitWith(MaxCalls) /\ signIn = DefaultSignInput /\ Unsigned /\ Rest

\* any device, token, nonce and clock
InitSign == InitWith(MaxChatCalls) /\ signIn \in SignInputs /\ Unsigned /\ Rest

\* a socket on which the 'message' event can still fire
Live(S, s) == s # 0 /\ S.sock[s] \in {"open", "closing"}

\* ---- SessionStateMachine (state-machine.ts lines 126-293) ---------------
\* lines 287-292
ClearAutoSleepTimer(A) == [A EXCEPT !.autoSleepTimer = FALSE]

\* a startAutoSleepTimer() that only clears the timer
StartAutoSleepTimerNever(A) == ClearAutoSleepTimer(A)

\* lines 275-282: the old timer is cleared and a new one armed
StartAutoSleepTimer(A) == [ClearAutoSleepTimer(A) EXCEPT !.autoSleepTimer = TRUE]

\* lines 153-171
Activate(A, speakerId) ==
    IF A.state = "IDLE"
    THEN [StartAutoSleepTimer([A EXCEPT !.state = "LISTENING",
                                        !.activeSpeakerId = speakerId])
            EXCEPT !.displayed = ListeningText]
    ELSE A

\* lines 176-198
Deactivate(A, reason) ==
    IF A.state \in {"LISTENING", "PROCESSING"}
    THEN [ClearAutoSleepTimer([A EXCEPT !.state = "IDLE", !.activeSpeakerId = 0])
            EXCEPT !.displayed = IF reason = "auto" THEN AutoSleepText ELSE SleepText]
    ELSE A

\* a startProcessing() that leaves the session as it is
StartProcessingNot(A) == A

\* lines 203-215
StartProcessing(A) ==
    IF A.state = "LISTENING"
    THEN ClearAutoSleepTimer([A EXCEPT !.state = "PROCESSING"])
    ELSE A

\* a finishProcessing() without its guard
FinishProcessingAlways(A) == StartAutoSleepTimer([A EXCEPT !.state = "LISTENING"])

\* lines 220-232
FinishProcessing(A) ==
    IF A.state = "PROCESSING"
    THEN StartAutoSleepTimer([A EXCEPT !.state = "LISTENING"])
    ELSE A

\* the four operations as their callers see them: the value returned and the
\* session data afterwards; known is whether this.sessions has the session id
\* (lines 154-155, 177-178, 204-205, 221-222)
activate(A, known, speakerId) ==
    IF ~known THEN [ok |-> FALSE, data |-> A]
    ELSE IF A.state = "IDLE" THEN [ok |-> TRUE, data |-> Activate(A, speakerId)]
    ELSE [ok |-> FALSE, data |-> Activate(A, speakerId)]

deactivate(A, known, reason) ==
    IF ~known THEN [ok |-> FALSE, data |-> A]
    ELSE IF A.state \in {"LISTENING", "PROCESSING"}
    THEN [ok |-> TRUE, data |-> Deactivate(A, reason)]
    ELSE [ok |-> FALSE, data |-> Deactivate(A, reason)]

startProcessing(A, known) ==
    IF ~known THEN [ok |-> FALSE, data |-> A]
    ELSE IF A.state = "LISTENING" THEN [ok |-> TRUE, data |-> StartProcessing(A)]
    ELSE [ok |-> FALSE, data |-> StartProcessing(A)]

finishProcessing(A, known) ==
    IF ~known THEN [ok |-> FALSE, data |-> A]
    ELSE IF A.state = "PROCESSING" THEN [ok |-> TRUE, data |-> FinishProcessing(A)]
    ELSE [ok |-> FALSE, data |-> FinishProcessing(A)]

\* a canProcessCommand() that lets every state through
CanProcessCommandAlways(A) == TRUE

\* lines 237-240
CanProcessCommand(A) == A.state = "LISTENING"

\* lines 245-248
IsProcessing(A) == A.state = "PROCESSING"

\* lines 277-281: the callback of the auto-sleep timer
OnAutoSleepTimer(A) ==
    IF A.state = "LISTENING"
    THEN Deactivate([A EXCEPT !.autoSleepTimer = FALSE], "auto")
    ELSE [A EXCEPT !.autoSleepTimer = FALSE]

\* createSession() for a session id that this.sessions already holds (lines
\* 132-141, called by onSession, index.ts lines 64-67): a new SessionData
\* replaces the old one in the map; a timer armed on the old object is not
\* cleared and stays armed
CreateSession(A) ==
    [A EXCEPT !.state = "IDLE", !.autoSleepTimer = FALSE, !.activeSpeakerId = 0,
              !.displayed = WelcomeText,
              !.oldTimers = IF A.autoSleepTimer THEN @ + 1 ELSE @]

\* lines 277-281 for a timer armed on a replaced SessionData: `data` is the
\* old object, left in LISTENING when it was replaced, and deactivate() looks
\* the session up by its id
OnOldAutoSleepTimer(A) == Deactivate([A EXCEPT !.oldTimers = @ - 1], "auto")

\* ---- the device identity (transcription.ts lines 285-307) ---------------
\* loadOrCreateDeviceIdentity(): a readable file with JSON in it is returned;
\* otherwise an identity is generated and written, and mkdirSync/writeFileSync
\* are outside the try block
LoadOrCreateDeviceIdentity(A) ==
    IF A.deviceFile = "valid" THEN A
    ELSE IF A.storage = "writable" THEN [A EXCEPT !.deviceFile = "valid"]
    ELSE [A EXCEPT !.threw = TRUE]

\* getGatewayClient() (lines 718-725) with the constructor (lines 374-381)
GetGatewayClient(A) ==
    IF A.gatewayClient THEN A
    ELSE LET A1 == LoadOrCreateDeviceIdentity(A)
         IN IF A1.threw THEN A1 ELSE [A1 EXCEPT !.gatewayClient = TRUE]

\* ---- queryOpenClaw (part_000 lines 59-78) -------------------------------
\* line 77: the CLI is started
QueryOpenClawCLI(A) == [A EXCEPT !.query = "cli", !.cliCalls = A.cliCalls + 1]

\* a catch block that gives up on the gateway
OnGatewayFailureDisable(A) ==
    QueryOpenClawCLI([A EXCEPT !.useGateway = FALSE,
                               !.gatewayFailures = Min(A.gatewayFailures + 1, MaxQueries)])

\* lines 70-77: the catch block logs, then the CLI is used for this request
OnGatewayFailure(A) ==
    QueryOpenClawCLI([A EXCEPT !.gatewayFailures = Min(A.gatewayFailures + 1, MaxQueries)])

\* lines 59-69: up to the first await
QueryOpenClaw(A) ==
    LET A0 == [A EXCEPT !.queries = A.queries + 1, !.gatewayCalls = 0,
                        !.cliCalls = 0, !.threw = FALSE,
                        !.inFlight = A.inFlight + 1]
    IN IF A0.useGateway
       THEN LET A1 == GetGatewayClient(A0)
            IN IF A1.threw THEN OnGatewayFailure(A1)
               ELSE [A1 EXCEPT !.query = "gateway", !.gatewayCalls = 1]
       ELSE QueryOpenClawCLI(A0)

\* ---- handleTranscription (transcription.ts lines 66-193) ----------------
\* lines 172-174
DisplayText(response) ==
    IF Len(response) > MAX_RESPONSE_LENGTH
    THEN SubSeq(response, 1, MAX_RESPONSE_LENGTH) \o "..."
    ELSE response

\* lines 166-180 and 188-192: queryOpenClaw() returned
OnResponse(A, response) ==
    FinishProcessing([A EXCEPT !.query = "none", !.inFlight = A.inFlight - 1,
                               !.displayed = DisplayText(response)])

\* lines 181-192: queryOpenClaw() threw
OnQueryError(A) ==
    FinishProcessing([A EXCEPT !.query = "none", !.inFlight = A.inFlight - 1,
                               !.displayed = ErrorText])

\* lines 72-166: up to the await of queryOpenClaw()
HandleTranscription(A, t) ==
    IF ~t.isFinal \/ t.blank THEN A
    ELSE IF t.noise THEN A
    ELSE IF A.state = "IDLE" /\ t.wake THEN Activate(A, t.speakerId)
    ELSE IF /\ t.mode = "commanding"
            /\ A.state # "IDLE"
            /\ A.activeSpeakerId # 0
            /\ t.speakerId # A.activeSpeakerId THEN A
    ELSE IF A.state = "LISTENING" /\ t.sleep THEN Deactivate(A, "manual")
    ELSE IF ~CanProcessCommand(A) THEN A
    ELSE IF IsProcessing(A) THEN [A EXCEPT !.displayed = WaitText]
    ELSE QueryOpenClaw([StartProcessing(A) EXCEPT !.displayed = HeardText])

\* ---- objects nothing can reach any more ---------------------------------
\* a request whose promise is settled, that is in no table, and whose socket
\* can deliver no late response
DeadReq(S, r) ==
    /\ S.reqs[r].state \notin {"none", "pending"}
    /\ r \notin S.pending
    /\ r \notin S.reqTimers
    /\ ~Live(S, S.reqs[r].sentOn)
    /\ S.reqs[r].settles <= 1

\* a pending promise of connect() that nothing can settle any more: its socket
\* is closed, its 15 s timer has fired and no request of its handshake is open
Hung(S, a) ==
    /\ S.prom[a] = "pending"
    /\ S.sock[a] = "closed"
    /\ a \notin S.connTimers
    /\ S.connectPromise # a
    /\ ~\E r \in Reqs : /\ S.reqs[r].owner = a
                        /\ S.reqs[r].state = "pending"
                        /\ r \in S.pending \cup S.reqTimers

DeadSock(S, a) ==
    /\ S.sock[a] = "closed"
    /\ a \notin S.connTimers
    /\ S.connectPromise # a
    /\ S.ws # a
    /\ S.prom[a] # "pending" \/ Hung(S, a)
    /\ \A r \in Reqs : (S.reqs[r].state # "none"
                          /\ (S.reqs[r].owner = a \/ S.reqs[r].sentOn = a))
                       => DeadReq(S, r)

\* a call whose promise is settled, whose timer is gone and whose listener is
\* on no socket that can still emit: only what it returned is kept
DeadCall(S, c) ==
    /\ S.calls[c].outcome \notin {"none", "pending"}
    /\ ~S.calls[c].timer
    /\ ~Live(S, S.calls[c].listener)

\* Callers suspended on a promise that cannot settle stay suspended for ever:
\* a call keeps pc = "awaitConnect" with awaiting = 0, a reconnect callback
\* just never resumes (this.reconnecting keeps the value it had).  The value
\* of a settled promise that no handler can read any more is forgotten.
Collect(S) ==
    LET dead == {a \in Sockets : DeadSock(S, a)}
        hung == {a \in Sockets : Hung(S, a)}
    IN [S EXCEPT
          !.sock = [a \in Sockets |-> IF a \in dead THEN "none" ELSE S.sock[a]],
          !.prom = [a \in Sockets |->
                     IF a \in dead THEN "none"
                     ELSE IF S.prom[a] \notin {"none", "pending"} /\ S.connectPromise # a
                     THEN "settled" ELSE S.prom[a]],
          !.challenged = S.challenged \ dead,
          !.fnAwait = [a \in Sockets |-> IF a \in hung THEN 0 ELSE S.fnAwait[a]],
          !.reqs = [r \in Reqs |->
                     IF DeadReq(S, r) THEN NewReq
                     ELSE IF S.reqs[r].state \notin {"none", "pending"}
                     THEN [S.reqs[r] EXCEPT !.state = "settled"] ELSE S.reqs[r]],
          !.calls = [c \in Calls |->
              IF DeadCall(S, c) THEN Returned(S.calls[c])
              ELSE [S.calls[c] EXCEPT
                      !.awaiting = IF @ \in hung THEN 0 ELSE @,
                      !.listener = IF @ \in dead THEN 0 ELSE @,
                      !.sent = IF @ \in dead THEN 0 ELSE @,
                      !.sentKey = IF S.calls[c].sent \in dead THEN Null ELSE @]]]

\* ---- promises -----------------------------------------------------------
\* resolve()/reject() of a promise that is already settled has no effect
SettleProm(p, a, v) == IF p[a] = "pending" THEN [p EXCEPT ![a] = v] ELSE p

\* resolve()/reject() of the promise of request r (lines 659, 698, 701, 439, 668)
SettleReq(q, r, v) ==
    [q EXCEPT ![r] = [state |-> IF q[r].state = "pending" THEN v ELSE q[r].state,
                      owner |-> q[r].owner,
                      sentOn |-> q[r].sentOn,
                      settles |-> q[r].settles + 1,
                      token |-> q[r].token,
                      signed |-> q[r].signed]]

\* ---- connect() (lines 388-463) -----------------------------------------
FreeSock(S) == {s \in Sockets : S.sock[s] = "none"}
NextSock(S) == MinOf(FreeSock(S))

\* a connect() without the check of this.connectPromise
ConnectCaseUnshared(S) == IF S.connected THEN "return" ELSE "new"

\* which of the three paths of connect() is taken (lines 389-392)
ConnectCase(S) ==
    IF S.connected THEN "return"
    ELSE IF S.connectPromise # 0 THEN "shared"
    ELSE "new"

\* connect() can run in the model: a new socket needs a free identifier
CanConnect(S) == ConnectCase(S) = "new" => FreeSock(S) # {}

\* the promise the caller of connect() ends up awaiting
AwaitedAttempt(S) == IF ConnectCase(S) = "new" THEN NextSock(S) ELSE S.connectPromise

\* a connect() that returns at once, whatever the state of the handshake
ConnectOutcomeNoWait(S) == "resolved"

\* the state of the promise that connect() returns (lines 389-392)
ConnectOutcome(S) ==
    IF ConnectCase(S) = "return" THEN "resolved"
    ELSE IF ConnectCase(S) = "new" THEN "pending"
    ELSE S.prom[S.connectPromise]

\* new Promise / new WebSocket / setTimeout(15000) (lines 392-396, 454-459)
ConnectEffects(S) ==
    IF ConnectCase(S) = "new"
    THEN [S EXCEPT !.ws = NextSock(S),
                   !.connectPromise = NextSock(S),
                   !.sock = [S.sock EXCEPT ![NextSock(S)] = "connecting"],
                   !.prom = [S.prom EXCEPT ![NextSock(S)] = "pending"],
                   !.connTimers = S.connTimers \cup {NextSock(S)}]
    ELSE S

\* ws.close(): an open socket starts its closing handshake, a connecting one
\* is aborted (the library then emits 'error' and 'close')
CloseSock(sk, w) ==
    IF w = 0 THEN sk
    ELSE [sk EXCEPT ![w] = IF @ = "open" THEN "closing"
                           ELSE IF @ = "connecting" THEN "failing" ELSE @]

\* ---- scheduleReconnect() (lines 469-497) -------------------------------
\* lines 474-476: the reset of the attempt count
SchedAttempts(att, last, t) ==
    IF last > 0 /\ (t - last) > ResetAfterMs THEN 0 ELSE att

\* lines 478-481
Backoff(att) == Min(reconnectBackoffMs * Pow2(att), maxBackoffMs)

\* lines 470-485: the flag, the reset, the delay and the timer
ScheduleReconnect(S) ==
    LET att == SchedAttempts(S.reconnectAttempts, S.lastConnectedAt, S.now)
    IN [S EXCEPT !.reconnecting = TRUE,
                 !.reconnectAttempts = att,
                 !.reconnectDelay = Backoff(att),
                 !.reconnTimers = S.reconnTimers + 1]

\* lines 489-491: `await this.connect()` returned
ReconnectSucceeded(S) ==
    [S EXCEPT !.reconnectAttempts = 0, !.reconnecting = FALSE]

\* lines 492-495: `await this.connect()` threw
ReconnectFailed(S) ==
    ScheduleReconnect([S EXCEPT !.failStreak = S.failStreak + 1])

RECURSIVE ReconnectFailedTimes(_, _)
ReconnectFailedTimes(n, S) ==
    IF n = 0 THEN S ELSE ReconnectFailedTimes(n - 1, ReconnectFailed(S))

\* ---- sendMessage() after `await this.connect()` (lines 575-655) --------
\* w is this.ws, sk the socket states and key this.sessionKey at that moment
CallStart(cl, w, sk, key) ==
    [cl EXCEPT !.pc = "streaming",
               !.awaiting = 0,
               !.timer = TRUE,
               !.listener = w,
               !.sent = IF w # 0 /\ sk[w] = "open" THEN w ELSE 0,
               !.sentKey = IF w # 0 /\ sk[w] = "open" THEN key ELSE Null,
               !.outcome = IF w # 0 /\ sk[w] = "connecting"
                           THEN "send failed" ELSE "pending"]

\* line 573 when connect() rejects: sendMessage() rejects with the same error
CallRejected(cl, e) ==
    [cl EXCEPT !.pc = "returned", !.awaiting = 0, !.outcome = e]

\* Continuations released by the promises of connect() that S1 settled and S0
\* had pending: reconnect callbacks suspended at line 488 and sendMessage
\* calls suspended at line 573.
Wake(S0, S1) ==
    LET ok == {a \in Sockets : S0.prom[a] = "pending" /\ S1.prom[a] = "resolved"}
        err == {a \in Sockets : S0.prom[a] = "pending"
                                  /\ S1.prom[a] \notin {"pending", "resolved"}}
        S2 == IF SumOver(S1.fnAwait, ok) > 0 THEN ReconnectSucceeded(S1) ELSE S1
        S3 == ReconnectFailedTimes(SumOver(S1.fnAwait, err), S2)
    IN [S3 EXCEPT
          !.fnAwait = [a \in Sockets |-> IF a \in ok \cup err THEN 0 ELSE S3.fnAwait[a]],
          !.calls = [c \in Calls |->
             IF S3.calls[c].pc = "awaitConnect" /\ S3.calls[c].awaiting \in ok
             THEN CallStart(S3.calls[c], S3.ws, S3.sock, S3.sessionKey)
             ELSE IF S3.calls[c].pc = "awaitConnect" /\ S3.calls[c].awaiting \in err
             THEN CallRejected(S3.calls[c], S3.prom[S3.calls[c].awaiting])
             ELSE S3.calls[c]]]

\* history: the streak of failures ends with a successful handshake, and the
\* duration of a connected period is fixed when `connected` drops
History(S0, S1) ==
    [S1 EXCEPT
       !.failStreak = IF S1.connected /\ ~S0.connected THEN 0 ELSE S1.failStreak,
       !.lastPeriodLong =
           IF S0.connected /\ ~S1.connected
           THEN (S0.now - S0.lastConnectedAt) > ResetAfterMs
           ELSE IF S1.connected THEN FALSE
           ELSE S1.lastPeriodLong]

\* the client is followed until the last sendMessage() call made on it has
\* returned (for ever when none is made)
Busy == \E c \in Calls : calls[c].pc # "returned"

\* the continuation of `await client.sendMessage()` in queryOpenClaw
\* (part_000 lines 65-74) and of `await queryOpenClaw()` in handleTranscription,
\* once the sendMessage() call A.call of the query in flight has settled in S
Resume(A, S) ==
    IF A.query = "gateway" /\ A.call # 0
    THEN LET cl == S.calls[A.call]
         IN IF cl.outcome = "resolved"
            THEN OnResponse([A EXCEPT !.call = 0], cl.result)
            ELSE IF cl.outcome \notin {"none", "pending"}
            THEN OnGatewayFailure([A EXCEPT !.call = 0])
            ELSE A
    ELSE A

\* a step of the client from S0: the handler's result S1, the continuations
\* it released, then the collection
Finish(S0, S1) == Collect(History(S0, Wake(S0, S1)))

\* one step: the handler, the continuations it released in the client and in
\* the query that awaits it, then the collection
Step(S0, S1) ==
    /\ Busy
    /\ Install(Finish(S0, S1))
    /\ app' = Resume(app, Finish(S0, S1))
    /\ UNCHANGED <<signIn, signMsg>>

\* ---- public methods -----------------------------------------------------
\* sendMessage(): line 573, then lines 575-655 when connect() has resolved
sendMessageFrom(S, c) ==
    LET S1 == ConnectEffects(S)
        o == ConnectOutcome(S)
    IN [S1 EXCEPT !.calls = [S1.calls EXCEPT ![c] =
          IF o = "resolved" THEN CallStart(S1.calls[c], S1.ws, S1.sock, S1.sessionKey)
          ELSE IF o = "pending"
          THEN [S1.calls[c] EXCEPT !.pc = "awaitConnect",
                                   !.awaiting = AwaitedAttempt(S),
                                   !.outcome = "pending"]
          ELSE CallRejected(S1.calls[c], o)]]

sendMessage(c) ==
    /\ Cur.calls[c].pc = "idle"
    /\ CanConnect(Cur)
    /\ Step(Cur, sendMessageFrom(Cur, c))

\* connect() called by a user of the class, whose continuation is not part of
\* the client (lines 388-463); only a call that creates a socket changes state
connect ==
    /\ ConnectCase(Cur) = "new"
    /\ CanConnect(Cur)
    /\ Step(Cur, ConnectEffects(Cur))

\* close(): lines 709-713
closeFrom(S) ==
    [S EXCEPT !.sock = CloseSock(S.sock, S.ws), !.ws = 0, !.connected = FALSE]

close ==
    /\ Cur.ws # 0 \/ Cur.connected
    /\ Step(Cur, closeFrom(Cur))

\* ---- time ---------------------------------------------------------------
Tick ==
    /\ Cur.now + TickMs <= 1 + MaxTicks * TickMs
    /\ Step(Cur, [Cur EXCEPT !.now = Cur.now + TickMs])

\* ---- the reconnect timer callback (lines 485-496) -----------------------
ReconnectTimerFrom(S) ==
    LET S1 == ConnectEffects([S EXCEPT !.reconnTimers = S.reconnTimers - 1,
                                       !.reconnectAttempts = S.reconnectAttempts + 1])
        o == ConnectOutcome(S)
    IN IF o = "resolved" THEN ReconnectSucceeded(S1)
       ELSE IF o = "pending"
       THEN [S1 EXCEPT !.fnAwait = [S1.fnAwait EXCEPT ![AwaitedAttempt(S)] = @ + 1]]
       ELSE ReconnectFailed(S1)

ReconnectTimer ==
    /\ Cur.reconnTimers > 0
    /\ Cur.reconnectAttempts < MaxAttempts
    /\ Cur.failStreak < MaxAttempts
    /\ CanConnect(Cur)
    /\ Step(Cur, ReconnectTimerFrom(Cur))

\* ---- the socket opens (line 397) ----------------------------------------
SocketOpen(s) ==
    /\ Cur.sock[s] = "connecting"
    /\ Step(Cur, [Cur EXCEPT !.sock = [Cur.sock EXCEPT ![s] = "open"]])

\* ---- the handshake: ws 'message' handler of connect() (lines 401-430) ---
FreeReq(S) == {r \in Reqs : S.reqs[r].state = "none"}

\* request(): the guard of lines 660-663
CanSend(S) == S.ws # 0 /\ S.sock[S.ws] = "open"

\* the error connect() rejects with when sendSignedConnect() fails (lines 414-428)
HandshakeError(e) == IF Includes(e, "NOT_PAIRED") THEN PairingRequired ELSE e

\* a client that keeps the token it read when it was constructed
LoadDeviceAuthTokenOnce(S) == Null

\* loadDeviceAuthToken() (lines 226-234): the token in device-auth.json now,
\* null when the file is missing or holds no token
LoadDeviceAuthToken(S) == IF S.tokenFile = "" THEN Null ELSE S.tokenFile

\* line 406: the nonce of the challenge the gateway sends on socket s
ChallengeNonce(s) == "n" \o ToString(s)

\* lines 503-520: what sendSignedConnect() signs for the challenge on socket s
SignInput(S, s) ==
    [signIn EXCEPT !.signedAtMs = S.now,
                   !.token = LoadDeviceAuthToken(S),
                   !.nonce = ChallengeNonce(s)]

\* line 537: auth.token of the 'connect' request, null for undefined
AuthToken(S) == IF OrEmpty(LoadDeviceAuthToken(S)) = "" THEN Null ELSE LoadDeviceAuthToken(S)

\* connect.challenge arrives on socket s: sendSignedConnect() -> request('connect')
\* (lines 405-409, 502-551, 658-682)
ChallengeFrom(S, s) ==
    LET S1 == [S EXCEPT !.challenged = S.challenged \cup {s}]
        r == MinOf(FreeReq(S))
    IN IF ~CanSend(S)
       THEN [S1 EXCEPT !.prom = SettleProm(S.prom, s, "Gateway not connected")]
       ELSE [S1 EXCEPT !.pending = S.pending \cup {r},
                       !.reqTimers = S.reqTimers \cup {r},
                       !.reqs = [S.reqs EXCEPT ![r] =
                                    [state |-> "pending", owner |-> s,
                                     sentOn |-> S.ws, settles |-> 0,
                                     token |-> AuthToken(S),
                                     signed |-> SignatureMessage(SignInput(S, s))]]]

\* the gateway opens the handshake on socket s
Challenge(s) ==
    /\ Live(Cur, s)
    /\ s \notin Cur.challenged
    /\ CanSend(Cur) => FreeReq(Cur) # {}
    /\ Step(Cur, ChallengeFrom(Cur, s))

\* a gateway that repeats connect.challenge on a socket it has challenged
ChallengeAgain(s) ==
    /\ Live(Cur, s)
    /\ s \in Cur.challenged
    /\ CanSend(Cur) => FreeReq(Cur) # {}
    /\ Step(Cur, ChallengeFrom(Cur, s))

\* handleMessage() without `this.pending.delete(msg.id)`
PendingAfterResponseKept(p, r) == p

\* handleMessage(): the pending table after a response with id r (lines 693-695)
PendingAfterResponse(p, r) == p \ {r}

\* the continuation of `await this.sendSignedConnect()` for the handshake of
\* attempt a (lines 410-413, or 414-428 with error e)
Authenticated(S, a) ==
    [S EXCEPT !.connected = TRUE,
              !.lastConnectedAt = S.now,
              !.prom = SettleProm(S.prom, a, "resolved")]

Rejected(S, a, e) ==
    [S EXCEPT !.prom = SettleProm(S.prom, a, HandshakeError(e))]

\* an Error whose message is the message of the envelope alone
RequestErrorBare(code, message) == IF message # "" THEN message ELSE "Request failed"

\* lines 699-700: the message of the Error a request is rejected with
RequestError(code, message) ==
    code \o ": " \o (IF message # "" THEN message ELSE "Request failed")

\* lines 697-701: the value the promise of the request is settled with
RequestOutcome(res) ==
    IF res.ok THEN res.payload ELSE RequestError(res.code, res.message)

\* handleMessage() for a response envelope res with id r (lines 684-707), and
\* the continuation of the handshake that awaits the request
handleMessage(S, r, res) ==
    IF r \in S.pending
    THEN LET S1 == [S EXCEPT !.pending = PendingAfterResponse(S.pending, r),
                             !.reqTimers = S.reqTimers \ {r},
                             !.reqs = SettleReq(S.reqs, r, RequestOutcome(res))]
         IN IF S.reqs[r].state # "pending" THEN S1
            ELSE IF res.ok THEN Authenticated(S1, S.reqs[r].owner)
            ELSE Rejected(S1, S.reqs[r].owner, RequestOutcome(res))
    ELSE S

\* the gateway answers request r on the socket the request was written to
Response(r, res) ==
    /\ Cur.reqs[r].state # "none"
    /\ Live(Cur, Cur.reqs[r].sentOn)
    /\ Step(Cur, handleMessage(Cur, r, res))

\* a deadline callback without `this.pending.delete(id)`
PendingAfterTimeoutKept(p, r) == p

\* line 667: the pending table after the deadline of request r
PendingAfterTimeout(p, r) == p \ {r}

\* the deadline of request r (lines 666-669)
RequestTimeoutFrom(S, r) ==
    LET S1 == [S EXCEPT !.reqTimers = S.reqTimers \ {r},
                        !.pending = PendingAfterTimeout(S.pending, r),
                        !.reqs = SettleReq(S.reqs, r, "Request timed out")]
    IN IF S.reqs[r].state = "pending"
       THEN Rejected(S1, S.reqs[r].owner, "Request timed out")
       ELSE S1

RequestTimeout(r) ==
    /\ r \in Cur.reqTimers
    /\ Step(Cur, RequestTimeoutFrom(Cur, r))

\* the 15 s timer of attempt a (lines 454-459)
ConnectTimeoutFrom(S, a) ==
    LET S1 == [S EXCEPT !.connTimers = S.connTimers \ {a}]
    IN IF ~S.connected
       THEN [S1 EXCEPT !.prom = SettleProm(S.prom, a, "Connection timeout"),
                       !.sock = CloseSock(S.sock, S.ws)]
       ELSE S1

ConnectTimeout(a) ==
    /\ a \in Cur.connTimers
    /\ Step(Cur, ConnectTimeoutFrom(Cur, a))

\* ---- socket events ------------------------------------------------------
\* ws 'error' handler (lines 449-452)
ErrorHandler(S, s) ==
    [S EXCEPT !.prom = SettleProm(S.prom, s, "WebSocket error")]

\* the requests the 'close' handler rejects (lines 437-440)
CloseRejects(p) == p

\* a 'close' handler that schedules a reconnect whatever the flag says
CloseSchedulesAlways(S) == TRUE

\* line 443: the 'close' handler schedules a reconnect unless one is under way
CloseSchedules(S) == ~S.reconnecting

\* ws 'close' handler (lines 432-447) of socket s
CloseHandler(S, s) ==
    LET rejected == CloseRejects(S.pending)
        owners == {S.reqs[r].owner : r \in {x \in rejected : S.reqs[x].state = "pending"}}
        S1 == [S EXCEPT
                 !.connected = FALSE,
                 !.ws = 0,
                 !.connectPromise = 0,
                 !.reqTimers = S.reqTimers \ rejected,
                 !.reqs = [r \in Reqs |->
                             IF r \in rejected
                             THEN SettleReq(S.reqs, r, "Gateway connection closed")[r]
                             ELSE S.reqs[r]],
                 !.pending = {},
                 !.prom = [a \in Sockets |->
                             IF a \in owners /\ S.prom[a] = "pending"
                             THEN "Gateway connection closed" ELSE S.prom[a]],
                 !.sock = [S.sock EXCEPT ![s] = "closed"]]
    IN IF CloseSchedules(S) THEN ScheduleReconnect(S1) ELSE S1

\* an established socket reports an error; its 'close' follows
SocketError(s) ==
    /\ Live(Cur, s)
    /\ Step(Cur, ErrorHandler([Cur EXCEPT !.sock = [Cur.sock EXCEPT ![s] = "errored"]], s))

\* the socket closes: after a closing handshake, after an error, or because
\* the peer went away
SocketClose(s) ==
    /\ Cur.sock[s] \in {"open", "closing", "errored"}
    /\ Step(Cur, CloseHandler(Cur, s))

\* the connection attempt fails or is aborted before the socket opened: the
\* library emits 'error' and then 'close' in the same tick
SocketFail(s) ==
    /\ Cur.sock[s] \in {"connecting", "failing"}
    /\ Step(Cur, CloseHandler(ErrorHandler(Cur, s), s))

\* ---- streaming: eventHandler of sendMessage() (lines 595-639) -----------
\* an eventHandler that keeps the first text it captured
CaptureTextFirst(fullText, text) == IF fullText = "" THEN text ELSE fullText

\* lines 623-625: the text kept after an 'agent' event of the assistant stream
CaptureText(fullText, text) == IF text # "" THEN text ELSE fullText

\* `resolve(fullText)` without the fallback
FinalResultRaw(fullText) == fullText

\* line 633: the value the call resolves with
FinalResult(fullText) == IF fullText # "" THEN fullText ELSE NoResponse

\* the gateway numbers its runs
FreshRun(S) == MinOf(RunIds \ {S.calls[c].runId : c \in Calls})

\* lines 600-611: the response to the chat.send request of call cl
OnChatResponse(cl, ok, run) ==
    IF ok THEN [cl EXCEPT !.runId = run]
    ELSE [cl EXCEPT !.timer = FALSE, !.completed = TRUE, !.listener = 0,
                    !.outcome = IF @ = "pending" THEN "Chat failed" ELSE @]

\* the gateway answers the chat.send of call c, once, on the socket it was
\* written to
ChatResponse(c, ok) ==
    /\ Live(Cur, Cur.calls[c].sent)
    /\ Cur.calls[c].listener = Cur.calls[c].sent
    /\ Cur.calls[c].runId = 0
    /\ Step(Cur, [Cur EXCEPT !.calls = [Cur.calls EXCEPT ![c] =
                     OnChatResponse(Cur.calls[c], ok, FreshRun(Cur))]])

\* an eventHandler that takes the events of every run once it has a runId
MatchesAnyRun(cl, s, rho) == cl.listener = s /\ cl.runId # 0

\* does the eventHandler of call cl, registered on socket s, take an event
\* with payload.runId = rho as one of its run? (lines 614-620)
Matches(cl, s, rho) == cl.listener = s /\ cl.runId # 0 /\ rho = cl.runId

\* lines 622-625 for an 'agent' event {stream, data: {text}} of the run of cl
OnAgentEvent(cl, stream, text) ==
    IF stream = "assistant"
    THEN [cl EXCEPT !.fullText = CaptureText(cl.fullText, text),
                    !.content = Append(cl.content, text)]
    ELSE cl

\* lines 627-634 for a 'chat' event {state} of the run of cl
OnChatEvent(cl, state) ==
    IF state = "final"
    THEN [cl EXCEPT !.timer = FALSE, !.completed = TRUE, !.listener = 0,
                    !.outcome = IF cl.outcome = "pending" THEN "resolved" ELSE cl.outcome,
                    !.result = IF cl.outcome = "pending"
                               THEN FinalResult(cl.fullText) ELSE cl.result]
    ELSE cl

\* the session keys an event can carry: the client's, those of the sessions,
\* none
EventKeys == {DefaultSessionKey, Null} \cup {SessionKey(k) : k \in Sessions}

\* event envelopes: msg.event, and payload.runId, payload.sessionKey,
\* payload.stream, payload.data.text and payload.state
Events ==
    [event : {"agent", "chat"}, runId : RunIds, sessionKey : EventKeys,
     stream : Streams, text : Texts, state : ChatStates]

\* an eventHandler that also wants the session key it sent
EventMatchesKey(cl, s, ev) == Matches(cl, s, ev.runId) /\ ev.sessionKey = cl.sentKey

\* lines 614-620: the eventHandler of call cl, registered on socket s, takes
\* event ev by payload.runId alone
EventMatches(cl, s, ev) == Matches(cl, s, ev.runId)

\* lines 622-634: what the eventHandler of cl does with an event of its run
OnEvent(cl, ev) ==
    LET c1 == IF ev.event = "agent" THEN OnAgentEvent(cl, ev.stream, ev.text)
              ELSE OnChatEvent(cl, ev.state)
    IN [c1 EXCEPT !.foreign = @ \/ (c1 # cl /\ ev.sessionKey # cl.sentKey)]

\* socket s emits 'message' with event ev: every eventHandler registered on
\* s runs
EventFrom(S, s, ev) ==
    [S EXCEPT !.calls = [c \in Calls |->
        IF EventMatches(S.calls[c], s, ev) THEN OnEvent(S.calls[c], ev)
        ELSE S.calls[c]]]

\* an event that carries the session key of the client
OwnEvent(S, event, rho, stream, text, state) ==
    [event |-> event, runId |-> rho, sessionKey |-> S.sessionKey,
     stream |-> stream, text |-> text, state |-> state]

\* socket s emits 'message' with an 'agent' event of run rho
AgentEventFrom(S, s, rho, stream, text) ==
    EventFrom(S, s, OwnEvent(S, "agent", rho, stream, text, "delta"))

\* an 'agent' event with payload.runId = rho arrives on socket s
AgentEvent(s, rho, stream, text) ==
    /\ Live(Cur, s)
    /\ \E c \in Calls : Cur.calls[c].listener = s
    /\ \A c \in Calls : Len(Cur.calls[c].content) < MaxContent
    /\ Step(Cur, AgentEventFrom(Cur, s, rho, stream, text))

\* socket s emits 'message' with a 'chat' event of run rho
ChatEventFrom(S, s, rho, state) ==
    EventFrom(S, s, OwnEvent(S, "chat", rho, "lifecycle", "", state))

\* a 'chat' event with payload.runId = rho arrives on socket s
ChatEvent(s, rho, state) ==
    /\ Live(Cur, s)
    /\ \E c \in Calls : Cur.calls[c].listener = s
    /\ Step(Cur, ChatEventFrom(Cur, s, rho, state))

\* an event arrives on socket s, with whatever session key the gateway gives it
Event(s, ev) ==
    /\ Live(Cur, s)
    /\ \E c \in Calls : Cur.calls[c].listener = s
    /\ \A c \in Calls : Len(Cur.calls[c].content) < MaxContent
    /\ Step(Cur, EventFrom(Cur, s, ev))

\* a timeout callback that marks the call completed and does not reject
OnCallTimeoutSilent(cl) == [cl EXCEPT !.timer = FALSE, !.completed = TRUE]

\* lines 587-592: the overall timeout of the call
OnCallTimeout(cl) ==
    IF ~cl.completed
    THEN [cl EXCEPT !.timer = FALSE, !.completed = TRUE,
                    !.outcome = IF @ = "pending" THEN "Chat response timeout" ELSE @]
    ELSE [cl EXCEPT !.timer = FALSE]

CallTimeoutFrom(S, c) ==
    [S EXCEPT !.calls = [S.calls EXCEPT ![c] = OnCallTimeout(S.calls[c])]]

CallTimeout(c) ==
    /\ Cur.calls[c].timer
    /\ Step(Cur, CallTimeoutFrom(Cur, c))

\* ---- the system ---------------------------------------------------------
\* the connection: public connect()/close(), the timers and the socket events
Connection ==
    \/ connect
    \/ close
    \/ ReconnectTimer
    \/ \E s \in Sockets : SocketOpen(s)
    \/ \E s \in Sockets : Challenge(s)
    \/ \E r \in Reqs, res \in Responses : Response(r, res)
    \/ \E r \in Reqs : RequestTimeout(r)
    \/ \E a \in Sockets : ConnectTimeout(a)
    \/ \E s \in Sockets : SocketError(s)
    \/ \E s \in Sockets : SocketClose(s)
    \/ \E s \in Sockets : SocketFail(s)

\* sendMessage() and the stream of its run
Chat ==
    \/ \E c \in Calls : sendMessage(c)
    \/ \E c \in Calls, ok \in BOOLEAN : ChatResponse(c, ok)
    \/ \E s \in Sockets, rho \in RunIds, st \in Streams, t \in Texts :
          AgentEvent(s, rho, st, t)
    \/ \E s \in Sockets, rho \in RunIds, st \in ChatStates : ChatEvent(s, rho, st)
    \/ \E c \in Calls : CallTimeout(c)

\* a gateway that does not keep to one challenge per socket
Replay == \E s \in Sockets : ChallengeAgain(s)

Next == Connection \/ Replay \/ Tick \/ Chat

\* the whole client; it is explored through the two parts below
Spec == Init /\ [][Next]_vars

\* the connection and the clock, with no sendMessage() call
SpecConnection == Init /\ [][Connection \/ Replay \/ Tick]_vars

\* sendMessage() calls over the connection, within one minute and with a
\* gateway that challenges each socket once
SpecChat == Init /\ [][Connection \/ Chat]_vars

\* several sendMessage() calls over connections that are opened by connect(),
\* authenticated, and closed by the peer or by close()
Runs ==
    \/ connect
    \/ \E s \in Sockets : SocketOpen(s)
    \/ \E s \in Sockets : Challenge(s)
    \/ \E r \in Reqs, res \in Responses : Response(r, res)
    \/ \E s \in Sockets : SocketClose(s)
    \/ close
    \/ Chat

SpecRuns == InitRuns /\ [][Runs]_vars

\* ---- events and session keys --------------------------------------------
\* one call, its handshake and the events of its run
Streaming ==
    \/ connect
    \/ ReconnectTimer
    \/ \E c \in Calls : sendMessage(c)
    \/ \E c \in Calls : CallTimeout(c)
    \/ \E s \in Sockets : SocketOpen(s)
    \/ \E s \in Sockets : Challenge(s)
    \/ \E r \in Reqs, res \in Responses : Response(r, res)
    \/ \E c \in Calls, ok \in BOOLEAN : ChatResponse(c, ok)
    \/ \E s \in Sockets, ev \in Events : Event(s, ev)
    \/ \E s \in Sockets : SocketClose(s)

SpecEvents == Init /\ [][Streaming]_vars

\* getGatewayClient(sessionKey) on the existing singleton (lines 719-723):
\* setSessionKey() overwrites the key of the one client
getGatewayClientFrom(S, k) == [S EXCEPT !.sessionKey = SessionKey(k)]

\* queryOpenClaw(message, sessionId) of session k (part_000 lines 64-65), its
\* sendMessage() being call c
queryOpenClaw(c, k) ==
    LET S0 == getGatewayClientFrom(Cur, k)
        S1 == [S0 EXCEPT !.calls = [S0.calls EXCEPT ![c].session = k]]
    IN /\ Cur.calls[c].pc = "idle"
       /\ CanConnect(Cur)
       /\ Step(S1, sendMessageFrom(S1, c))

\* the queries of several sessions over the one client
Keyed ==
    \/ \E c \in Calls, k \in Sessions : queryOpenClaw(c, k)
    \/ \E s \in Sockets : SocketOpen(s)
    \/ \E s \in Sockets : Challenge(s)
    \/ \E r \in Reqs, res \in Responses : Response(r, res)
    \/ \E c \in Calls, ok \in BOOLEAN : ChatResponse(c, ok)
    \/ \E c \in Calls : CallTimeout(c)
    \/ \E s \in Sockets : SocketClose(s)

SpecKeys == InitRuns /\ [][Keyed]_vars

\* ---- close() that forgets the attempt ----------------------------------
\* close() of the class variant at lines 1198-1204: as lines 709-713, and
\* this.connectPromise = null
closeResetFrom(S) == [closeFrom(S) EXCEPT !.connectPromise = 0]

closeReset ==
    /\ Cur.ws # 0 \/ Cur.connected \/ Cur.connectPromise # 0
    /\ Step(Cur, closeResetFrom(Cur))

\* the steps in which that variant acts as the class at lines 357-714: the
\* handshake, the 'close' handler, and a connect() that makes a socket
Reopening ==
    \/ connect
    \/ closeReset
    \/ ReconnectTimer
    \/ \E s \in Sockets : SocketOpen(s)
    \/ \E s \in Sockets : Challenge(s)
    \/ \E r \in Reqs, res \in Responses : Response(r, res)
    \/ \E s \in Sockets : SocketClose(s)

SpecReopen == Init /\ [][Reopening]_vars

\* ---- pairing ------------------------------------------------------------
\* the tokens device-auth.json can hold: no file, an empty token, two tokens
TokenFiles == {Null, "", "t1", "t2"}

\* device-auth.json is written from outside the client (line 221: the pairing
\* approved in the web UI stores the operator token)
TokenChange(t) ==
    /\ t # Cur.tokenFile
    /\ Step(Cur, [Cur EXCEPT !.tokenFile = t])

\* handshakes, reconnects and the token file
Pairing ==
    \/ connect
    \/ ReconnectTimer
    \/ \E s \in Sockets : SocketOpen(s)
    \/ \E s \in Sockets : Challenge(s)
    \/ \E r \in Reqs, res \in Responses : Response(r, res)
    \/ \E s \in Sockets : SocketClose(s)
    \/ \E t \in TokenFiles : TokenChange(t)

SpecPairing == Init /\ [][Pairing]_vars

\* sendSignedConnect() builds its signature message (lines 502-520)
Sign ==
    /\ Unsigned
    /\ signMsg' = SignatureMessage(signIn)
    /\ UNCHANGED <<clientVars, signIn, app>>

SpecSign == InitSign /\ [][Sign]_vars

\* ---- the session as a system --------------------------------------------
AppStep(A) == app' = A /\ UNCHANGED <<clientVars, signIn, signMsg>>

\* the glasses deliver a transcription event to a session that uses the
\* client: a command that goes to the gateway is a sendMessage() call, made
\* after getGatewayClient() has set the session key (part_000 lines 64-65)
Command(t) ==
    LET A1 == HandleTranscription(app, t)
        c == MinOf({x \in Calls : Cur.calls[x].pc = "idle"})
        S0 == getGatewayClientFrom(Cur, 1)
        S1 == Finish(S0, sendMessageFrom(S0, c))
    IN /\ A1.queries <= MaxQueries
       /\ IF A1.queries > app.queries /\ A1.query = "gateway"
          THEN /\ \E x \in Calls : Cur.calls[x].pc = "idle"
               /\ CanConnect(Cur)
               /\ Install(S1)
               /\ app' = Resume([A1 EXCEPT !.call = c], S1)
               /\ UNCHANGED <<signIn, signMsg>>
          ELSE AppStep(A1)

\* the glasses deliver a transcription event
Transcription(t) ==
    /\ HandleTranscription(app, t).queries <= MaxQueries
    /\ AppStep(HandleTranscription(app, t))

\* client.sendMessage() resolves with the text of the run
GatewayResolves(text) ==
    /\ app.query = "gateway"
    /\ AppStep(OnResponse(app, text))

\* client.sendMessage() rejects
GatewayRejects ==
    /\ app.query = "gateway"
    /\ AppStep(OnGatewayFailure(app))

\* the CLI prints an answer
CliReturns(text) ==
    /\ app.query = "cli"
    /\ AppStep(OnResponse(app, text))

\* the CLI fails with no output
CliThrows ==
    /\ app.query = "cli"
    /\ AppStep(OnQueryError(app))

\* the auto-sleep timer fires
AutoSleep ==
    /\ app.autoSleepTimer
    /\ AppStep(OnAutoSleepTimer(app))

Session ==
    \/ \E t \in Transcriptions : Transcription(t)
    \/ \E text \in ReplyTexts : GatewayResolves(text)
    \/ GatewayRejects
    \/ \E text \in ReplyTexts : CliReturns(text)
    \/ CliThrows
    \/ AutoSleep

\* a session on a machine with any identity file and storage
InitSession ==
    /\ InitWith(MaxChatCalls) /\ signIn = DefaultSignInput /\ Unsigned
    /\ tokenFile = Null
    /\ \E f \in DeviceFiles, st \in Storages : app = NewApp(f, st)

SpecSession == InitSession /\ [][Session]_vars

\* timers that are armed fire
SpecSessionLive == SpecSession /\ WF_vars(AutoSleep)

\* ---- a session that is created again ------------------------------------
\* onSession runs again for the session id (index.ts lines 43, 64-67)
SessionAgain ==
    /\ app.oldTimers + (IF app.autoSleepTimer THEN 1 ELSE 0) <= MaxOldTimers
    /\ AppStep(CreateSession(app))

\* the auto-sleep timer of a replaced SessionData fires
OldAutoSleep ==
    /\ app.oldTimers > 0
    /\ AppStep(OnOldAutoSleepTimer(app))

Recreation ==
    \/ Session
    \/ SessionAgain
    \/ OldAutoSleep

SpecRecreate == InitSession /\ [][Recreation]_vars

\* ---- a session whose queries go through the client -----------------------
\* what one speaker says to a session in conversation mode: the wake word,
\* the sleep word, a command
Utterances ==
    {t \in Transcriptions : /\ t.isFinal /\ ~t.blank /\ ~t.noise
                            /\ t.speakerId = 1 /\ t.mode = "conversation"
                            /\ ~(t.wake /\ t.sleep)}

Query ==
    \/ \E t \in Utterances : Command(t)
    \/ ReconnectTimer
    \/ \E s \in Sockets : SocketOpen(s)
    \/ \E s \in Sockets : Challenge(s)
    \/ \E r \in Reqs, res \in Responses : Response(r, res)
    \/ \E a \in Sockets : ConnectTimeout(a)
    \/ \E s \in Sockets : SocketClose(s)
    \/ \E c \in Calls, ok \in BOOLEAN : ChatResponse(c, ok)
    \/ \E s \in Sockets, rho \in RunIds, st \in ChatStates : ChatEvent(s, rho, st)
    \/ \E c \in Calls : CallTimeout(c)
    \/ \E text \in ReplyTexts : CliReturns(text)
    \/ CliThrows
    \/ AutoSleep

SpecQuery == Init /\ [][Query]_vars

\* no timer of the client is armed: the 15 s timers, the request deadlines,
\* the reconnect timers and the timeouts of the calls
TimersFired ==
    /\ connTimers = {}
    /\ reqTimers = {}
    /\ reconnTimers = 0
    /\ \A c \in Calls : ~calls[c].timer

\* timers that are armed fire (setTimeout), in the session and in the client,
\* and the CLI ends (execAsync has a timeout, part_000 line 90)
SpecQueryLive ==
    /\ SpecQuery
    /\ WF_vars(AutoSleep)
    /\ WF_vars(CliReturns(Chars(1)) \/ CliThrows)
    /\ []<>TimersFired

\* ---- properties ---------------------------------------------------------
\* the promise of request r is waiting for its outcome
Open(r) == reqs[r].state = "pending"

\* C1: every request gets exactly one terminal outcome: resolve/reject is
\* called at most once on its promise, a request that has none yet is in the
\* pending table with its deadline armed, and a response with id r settles,
\* removes or disarms no request other than r.
C1_OneOutcomePerRequest ==
    /\ \A r \in Reqs : reqs[r].settles <= 1
    /\ \A r \in Reqs : Open(r) => (r \in pending /\ r \in reqTimers /\ reqs[r].settles = 0)
    /\ \A r \in Reqs : reqs[r].state = "settled" => (r \notin pending /\ r \notin reqTimers)
    /\ \A r \in Reqs, res \in Responses :
          LET S1 == handleMessage(Cur, r, res)
          IN \A q \in Reqs \ {r} :
                /\ S1.reqs[q] = reqs[q]
                /\ (q \in S1.pending) = (q \in pending)
                /\ (q \in S1.reqTimers) = (q \in reqTimers)

\* two requests were pending on one socket, one has been answered and settled
\* once, the other is still waiting
C1_Witness ==
    \E r \in Reqs, q \in Reqs :
        /\ r # q
        /\ reqs[r].state = "settled" /\ reqs[r].settles = 1
        /\ Open(q) /\ q \in pending
        /\ reqs[r].sentOn = reqs[q].sentOn

\* the run of call c is active: chat.send was answered ok and the call has
\* no outcome yet
ActiveRun(S, c) ==
    /\ S.calls[c].pc = "streaming"
    /\ S.calls[c].runId # 0
    /\ S.calls[c].outcome = "pending"

\* C2: when the 'close' event of a socket fires, every pending request and
\* every streaming call with an active run on that socket is rejected with
\* the connection-closed error.
C2_CloseRejectsAll ==
    \A s \in Sockets : sock[s] \in {"open", "closing", "errored"} =>
        LET S1 == CloseHandler(Cur, s)
        IN /\ \A r \in pending : Open(r) => S1.reqs[r].state = "Gateway connection closed"
           /\ \A c \in Calls : (ActiveRun(Cur, c) /\ calls[c].listener = s)
                  => S1.calls[c].outcome = "Gateway connection closed"

\* C3: while the promise of an earlier connect() call is pending, a further
\* connect() call awaits that same promise and creates no socket.
C3_SingleAttempt ==
    \A a \in Sockets : prom[a] = "pending" =>
        (ConnectCase(Cur) = "shared" /\ AwaitedAttempt(Cur) = a)

\* a reconnect attempt is running: its failure calls scheduleReconnect()
Reconnecting == \E a \in Sockets : fnAwait[a] > 0

\* C4: when the reconnect attempt that follows k failed attempts fails too
\* (no successful handshake in between, the attempt count being k + 1 while
\* it runs), scheduleReconnect() arms the next timer with
\* min(1000 * 2^(k+1), 30000) ms and leaves the attempt count at k + 1.
C4_BackoffSequence ==
    (Reconnecting /\ ~connected /\ reconnectAttempts = failStreak + 1) =>
        LET S1 == ReconnectFailed(Cur)
        IN /\ S1.reconnectDelay
                = Min(reconnectBackoffMs * Pow2(failStreak + 1), maxBackoffMs)
           /\ S1.reconnectAttempts = failStreak + 1

\* C5: scheduleReconnect() resets the attempt count when the connected
\* period that just ended lasted more than 60000 ms, and keeps the
\* accumulated count when that period lasted 60000 ms or less.
C5_ResetOnlyAfterLongPeriod ==
    /\ \A s \in Sockets :
          (connected /\ ~reconnecting /\ sock[s] \in {"open", "closing", "errored"}
             /\ now - lastConnectedAt > ResetAfterMs)
          => CloseHandler(Cur, s).reconnectDelay = reconnectBackoffMs
    /\ (Reconnecting /\ ~connected /\ lastConnectedAt > 0 /\ ~lastPeriodLong)
          => SchedAttempts(reconnectAttempts, lastConnectedAt, now) = reconnectAttempts

\* something will still try to connect: an armed reconnect timer, a socket
\* that has not closed, or a reconnect attempt waiting for connect()
AttemptInFlight ==
    \/ reconnTimers > 0
    \/ \E a \in Sockets : sock[a] \notin {"none", "closed"}
    \/ Reconnecting
    \/ \E a \in connTimers : prom[a] = "pending"

\* C6: once the client has lost a connection or an attempt, whenever it is
\* not connected a reconnect timer is pending or an attempt is in flight.
C6_NeverGivesUp ==
    (~connected /\ (reconnecting \/ lastConnectedAt > 0)) => AttemptInFlight

\* C7: when the 15 s timer of an attempt whose socket received no
\* connect.challenge fires, the promise of the attempt is rejected with the
\* connection-timeout error (it does not stay pending) and the socket of the
\* attempt is closed or closing.
C7_TimeoutRejectsAttempt ==
    \A a \in connTimers : a \notin challenged =>
        LET S1 == ConnectTimeoutFrom(Cur, a)
        IN /\ prom[a] = "pending" => S1.prom[a] = "Connection timeout"
           /\ S1.sock[a] \notin {"connecting", "open"}

\* the three outcomes of sendMessage()
ChatOutcomes == {"resolved", "Chat failed", "Chat response timeout"}

\* call c is suspended in `await this.connect()` on a promise nothing settles
Suspended(c) == calls[c].pc = "awaitConnect" /\ calls[c].awaiting = 0

\* C8: every sendMessage() call settles with one of its three outcomes; no
\* call stays suspended for ever, in connect() or after it.
C8_CallSettles ==
    \A c \in Calls :
        /\ calls[c].outcome \in {"none", "pending"} \cup ChatOutcomes
        /\ ~Suspended(c)
        /\ calls[c].outcome = "pending" =>
              (calls[c].pc = "awaitConnect" \/ calls[c].timer)

\* a call is suspended for ever in connect()
C8_Hang == \E c \in Calls : Suspended(c)

\* the texts of a sequence of content events that the eventHandler keeps
NonEmpty(seq) == SelectSeq(seq, LAMBDA t : t # "")
Last(seq) == seq[Len(seq)]

Resolved(c) == calls[c].outcome = "resolved"

\* C9 as stated: a call that resolves after content events resolves with the
\* text of the last content event of its run.
C9_LastContentWins ==
    \A c \in Calls : (Resolved(c) /\ calls[c].content # <<>>)
        => calls[c].result = Last(calls[c].content)

\* C9, amended: a call that resolves resolves with the text of the last
\* content event of its run that carried a non-empty text; content events
\* with an empty text change nothing, and with no non-empty text the result
\* is 'No response'.
C9_LastNonEmptyContentWins ==
    \A c \in Calls : (Resolved(c) /\ calls[c].content # <<>>) =>
        calls[c].result = IF NonEmpty(calls[c].content) # <<>>
                          THEN Last(NonEmpty(calls[c].content))
                          ELSE NoResponse

\* a call received two different non-empty texts and resolved with the second
C9_Witness ==
    \E c \in Calls :
        /\ Resolved(c)
        /\ Len(calls[c].content) = 2
        /\ calls[c].content[1] # ""
        /\ calls[c].content[2] # ""
        /\ calls[c].content[1] # calls[c].content[2]
        /\ calls[c].result = calls[c].content[2]

\* C10: the finality event of a run with no content event resolves the call
\* with 'No response': not a rejection, not the empty string.
C10_NoResponseSentinel ==
    \A c \in Calls :
        /\ (ActiveRun(Cur, c) /\ calls[c].content = <<>>) =>
              /\ OnChatEvent(calls[c], "final").outcome = "resolved"
              /\ OnChatEvent(calls[c], "final").result = NoResponse
        /\ (Resolved(c) /\ calls[c].content = <<>>) => calls[c].result = NoResponse

\* a call resolved at finality without having received a content event
C10_Witness ==
    \E c \in Calls :
        /\ Resolved(c)
        /\ calls[c].content = <<>>
        /\ calls[c].result = NoResponse

\* C11: with several streaming calls on one connection, an event whose
\* payload runId is rho changes only the call whose runId is rho: every call
\* with another runId (or with none yet) keeps its accumulated text, its
\* outcome and the rest of its state, whatever the event is; and the gateway
\* gives no two streaming calls the same runId.
C11_EventsReachOnlyTheirRun ==
    /\ \A s \in Sockets, rho \in RunIds, c \in Calls :
          calls[c].runId # rho =>
             /\ \A st \in Streams, t \in Texts :
                   AgentEventFrom(Cur, s, rho, st, t).calls[c] = calls[c]
             /\ \A st \in ChatStates :
                   ChatEventFrom(Cur, s, rho, st).calls[c] = calls[c]
    /\ \A c, d \in Calls :
          (c # d /\ calls[c].runId # 0) => calls[c].runId # calls[d].runId

\* two calls stream on the same socket under different runIds, and the events
\* so far have given text to one of them only
C11_Witness ==
    \E c, d \in Calls :
       /\ c # d
       /\ calls[c].listener # 0 /\ calls[c].listener = calls[d].listener
       /\ calls[c].runId # 0 /\ calls[d].runId # 0
       /\ calls[c].fullText # "" /\ Len(calls[c].content) = MaxContent
       /\ calls[d].fullText = "" /\ calls[d].content = <<>>
       /\ calls[d].outcome = "pending"
\* the deadline of request r has fired: its promise is settled and its timer
\* is gone
Expired(r) == reqs[r].state \notin {"none", "pending"} /\ r \notin reqTimers

\* C12: a response envelope that arrives after the deadline of its request
\* has fired is a no-op: handleMessage() leaves the pending table, connected,
\* the socket, the promise of connect(), every other request and everything
\* else as they were, and settles nothing.
C12_LateResponseIsNoOp ==
    \A r \in Reqs, res \in Responses :
       Expired(r) => handleMessage(Cur, r, res) = Cur

\* the handshake request timed out, which rejected connect(), and the socket
\* it was written to can still deliver its response
C12_Witness ==
    \E r \in Reqs :
       /\ Expired(r)
       /\ Live(Cur, reqs[r].sentOn)
       /\ prom[reqs[r].owner] = "Request timed out"
       /\ connectPromise = reqs[r].owner

\* C13: once the timeout of a streaming call has rejected it with the
\* stream-timeout error, the client no longer tracks its run: the eventHandler
\* of the call is registered on no socket, and no later event of any run
\* changes anything of the call.
C13_TimeoutStopsTracking ==
    \A c \in Calls :
       calls[c].outcome = "Chat response timeout" =>
          /\ calls[c].listener = 0
          /\ \A s \in Sockets, rho \in RunIds :
                /\ \A st \in Streams, t \in Texts :
                      AgentEventFrom(Cur, s, rho, st, t).calls[c] = calls[c]
                /\ \A st \in ChatStates :
                      ChatEventFrom(Cur, s, rho, st).calls[c] = calls[c]

\* a call was rejected by its timeout and its eventHandler, still registered
\* on a socket that emits, has a runId to match events against
C13_StillListening ==
    \E c \in Calls :
       /\ calls[c].outcome = "Chat response timeout"
       /\ Live(Cur, calls[c].listener)
       /\ calls[c].runId # 0

\* the handshake of attempt a waits for the answer to request r, and connect()
\* of that attempt has not returned
Handshaking(r) ==
    /\ Open(r)
    /\ r \in pending
    /\ prom[reqs[r].owner] = "pending"

\* C14: when the connect request is answered with ok = false, connect()
\* rejects: with the pairing-required error (message starting with
\* 'PAIRING_REQUIRED') if the error carries the not-paired code, with an
\* error that is not the pairing-required one for any other error; and in
\* neither case does the client become connected.
C14_PairingErrorByCode ==
    \A r \in Reqs, res \in Responses :
       (Handshaking(r) /\ ~res.ok) =>
          LET S1 == handleMessage(Cur, r, res)
              e == S1.prom[reqs[r].owner]
          IN /\ e \notin {"pending", "resolved"}
             /\ StartsWith(e, "PAIRING_REQUIRED") <=> (res.code = "NOT_PAIRED")
             /\ S1.connected = connected

\* the state once close() has run and the socket it closed has emitted the
\* events that follow from it ('error' and 'close' for a socket that was
\* still connecting, 'close' for an open one)
AfterClose(S) ==
    LET S1 == closeFrom(S)
    IN IF S.sock[S.ws] = "connecting"
       THEN CloseHandler(ErrorHandler(S1, S.ws), S.ws)
       ELSE CloseHandler(S1, S.ws)

\* C15: close() releases the socket and fails all outstanding work: the
\* client holds no socket and is not connected, and as a consequence of the
\* close every request pending at that time and every sendMessage() call
\* still waiting for its run is rejected instead of staying pending.
C15_CloseFailsOutstandingWork ==
    (ws # 0 /\ sock[ws] \in {"connecting", "open"}) =>
        /\ closeFrom(Cur).ws = 0
        /\ ~closeFrom(Cur).connected
        /\ \A r \in pending :
              Open(r) => AfterClose(Cur).reqs[r].state = "Gateway connection closed"
        /\ \A c \in Calls :
              (calls[c].pc = "streaming" /\ calls[c].outcome = "pending")
                 => AfterClose(Cur).calls[c].outcome # "pending"

\* sockets that are open or opening
Opened == {s \in Sockets : sock[s] \in {"connecting", "open"}}

\* C16: in every reachable state at most one socket is open or opening,
\* whatever the interleaving of connect(), sendMessage(), close(), the
\* reconnect timers, the connect-timeout timers and the socket events.
C16_AtMostOneSocket == Cardinality(Opened) <= 1

\* a second socket is open or opening while the object of the one before it,
\* closed, is still referenced by its own 15 s timer
C16_Witness ==
    \E a, b \in Sockets :
       /\ sock[a] = "closed"
       /\ a \in connTimers
       /\ b \in Opened
       /\ ws = b

\* in state S call c has just gone past `await this.connect()` and written
\* chat.send to an open socket on which the handshake has completed
SentAuthenticated(S, c) ==
    /\ S.ws # 0
    /\ S.sock[S.ws] = "open"
    /\ S.connected
    /\ S.prom[S.ws] = "resolved"
    /\ S.calls[c].sent = S.ws

\* C17: whenever sendMessage() proceeds past its await of connect(), at once
\* because the client is connected or later when the promise it awaited
\* resolves, the client holds a non-null open socket on which the handshake
\* has completed, and chat.send is written to that socket.
C17_SendsOnAuthenticatedSocket ==
    /\ \A c \in Calls :
          (calls[c].pc = "idle" /\ CanConnect(Cur)) =>
             LET S1 == Wake(Cur, sendMessageFrom(Cur, c))
             IN S1.calls[c].pc = "streaming" => SentAuthenticated(S1, c)
    /\ \A c \in Calls, r \in Reqs, res \in Responses :
          (calls[c].pc = "awaitConnect" /\ Live(Cur, reqs[r].sentOn)) =>
             LET S1 == Wake(Cur, handleMessage(Cur, r, res))
             IN S1.calls[c].pc = "streaming" => SentAuthenticated(S1, c)

\* C18: a response with ok = false for a pending request rejects it with an
\* error whose message carries both the code and the message of the
\* envelope's error field, and the caller continues on its failure path; a
\* response with ok = true resolves it with the payload, and the caller
\* continues on its success path.
C18_ResponseSettlesRequest ==
    \A r \in Reqs, res \in Responses :
       (Open(r) /\ r \in pending) =>
          LET S1 == handleMessage(Cur, r, res)
              v == S1.reqs[r].state
              a == reqs[r].owner
          IN /\ r \notin S1.pending
             /\ res.ok =>
                   /\ v = res.payload
                   /\ prom[a] = "pending" => S1.prom[a] = "resolved"
             /\ ~res.ok =>
                   /\ Includes(v, res.code)
                   /\ Includes(v, res.message)
                   /\ StartsWith(v, res.code \o ":")
                   /\ prom[a] = "pending" => S1.prom[a] \notin {"pending", "resolved"}

\* the connect request was rejected with code and default message, and
\* connect() passed that error on
C18_Witness ==
    \E r \in Reqs :
       /\ reqs[r].state = "settled"
       /\ connectPromise = reqs[r].owner
       /\ prom[reqs[r].owner] = "OTHER: Request failed"

\* the state after the deadline of request r fired and the continuations it
\* released have run
AfterRequestTimeout(r) == Wake(Cur, RequestTimeoutFrom(Cur, r))

\* the state after the overall timeout of call c fired
AfterCallTimeout(c) == Wake(Cur, CallTimeoutFrom(Cur, c))

\* what no expiry touches: the connected flag, the socket and its state, the
\* reference to the promise of connect(), the 15 s timers, the clock
SameConnection(S) ==
    /\ S.connected = connected
    /\ S.ws = ws
    /\ S.sock = sock
    /\ S.connectPromise = connectPromise
    /\ S.connTimers = connTimers
    /\ S.lastConnectedAt = lastConnectedAt
    /\ S.challenged = challenged

\* the reconnect loop is where it was
SameReconnect(S) ==
    /\ S.reconnectAttempts = reconnectAttempts
    /\ S.reconnecting = reconnecting
    /\ S.reconnTimers = reconnTimers
    /\ S.fnAwait = fnAwait

\* the expiry of request r removes and rejects r only
OnlyRequest(S, r) ==
    /\ S.pending = pending \ {r}
    /\ S.reqTimers = reqTimers \ {r}
    /\ Open(r) => S.reqs[r].state = "Request timed out"
    /\ \A q \in Reqs \ {r} : S.reqs[q] = reqs[q]

\* the expiry of the timeout of call c rejects c only
OnlyCall(S, c) ==
    /\ (calls[c].outcome = "pending" /\ ~calls[c].completed)
          => S.calls[c].outcome = "Chat response timeout"
    /\ \A d \in Calls \ {c} : S.calls[d] = calls[d]
    /\ S.pending = pending /\ S.reqTimers = reqTimers /\ S.reqs = reqs

\* C19 as stated: the expiry of a request deadline or of a streaming call's
\* overall timeout is local: it removes and rejects only that caller's entry
\* and leaves the connected flag, the socket, the promise of connect(), the
\* reconnect counters and every other pending request or run as they were.
C19_TimeoutsAreLocal ==
    /\ \A r \in reqTimers :
          /\ OnlyRequest(AfterRequestTimeout(r), r)
          /\ SameConnection(AfterRequestTimeout(r))
          /\ SameReconnect(AfterRequestTimeout(r))
          /\ AfterRequestTimeout(r).prom = prom
          /\ AfterRequestTimeout(r).calls = calls
    /\ \A c \in Calls : calls[c].timer =>
          /\ OnlyCall(AfterCallTimeout(c), c)
          /\ SameConnection(AfterCallTimeout(c))
          /\ SameReconnect(AfterCallTimeout(c))
          /\ AfterCallTimeout(c).prom = prom

\* C19 amended: the expiry of a streaming call's timeout changes that call
\* only.  The expiry of a request deadline removes and rejects that request
\* only and leaves the connected flag, the socket and the reference to the
\* promise of connect() as they were; but the request is the connect request
\* of a handshake, so its rejection rejects the promise of that connect()
\* attempt (and of no other), which fails the sendMessage() calls awaiting
\* it and makes a reconnect callback awaiting it schedule the next attempt.
C19_TimeoutsFailOnlyTheirHandshake ==
    /\ \A r \in reqTimers :
          LET S1 == AfterRequestTimeout(r)
              a == reqs[r].owner
          IN /\ OnlyRequest(S1, r)
             /\ SameConnection(S1)
             /\ \A b \in Sockets \ {a} : S1.prom[b] = prom[b]
             /\ (Open(r) /\ prom[a] = "pending") => S1.prom[a] = "Request timed out"
             /\ fnAwait[a] = 0 => SameReconnect(S1)
             /\ (Open(r) /\ prom[a] = "pending" /\ fnAwait[a] > 0)
                   => S1.reconnTimers = reconnTimers + fnAwait[a]
             /\ \A c \in Calls : calls[c].awaiting # a => S1.calls[c] = calls[c]
    /\ \A c \in Calls : calls[c].timer =>
          /\ OnlyCall(AfterCallTimeout(c), c)
          /\ SameConnection(AfterCallTimeout(c))
          /\ SameReconnect(AfterCallTimeout(c))
          /\ AfterCallTimeout(c).prom = prom

\* a connect request timed out during a reconnect attempt: connect() of that
\* attempt was rejected with the timeout while the client still holds the
\* open socket, and the reconnect loop has armed its next timer
C19_Witness ==
    \E r \in Reqs :
       /\ Expired(r)
       /\ connectPromise = reqs[r].owner
       /\ prom[reqs[r].owner] = "Request timed out"
       /\ ws = reqs[r].owner
       /\ sock[ws] = "open"
       /\ failStreak > 0
       /\ reconnTimers > 0

\* String.prototype.split for a separator of one character
RECURSIVE Split(_, _)
Split(text, sep) ==
    LET hits == {i \in 1..Len(text) : SubSeq(text, i, i) = sep}
    IN IF hits = {} THEN <<text>>
       ELSE LET i == MinOf(hits)
            IN <<SubSeq(text, 1, i - 1)>> \o Split(SubSeq(text, i + 1, Len(text)), sep)

\* C20: the signature message is the join with '|', in this order, of the
\* version tag, the device id, 'cli', 'backend', the role, the scopes joined
\* with ',', the timestamp in milliseconds, the pairing token (empty if there
\* is none) and the nonce: splitting it at '|' gives back exactly these nine
\* fields; and for v2, d1, operator, scopes a and b, 1000, no token and nonce
\* n1 it is 'v2|d1|cli|backend|operator|a,b|1000||n1'.
C20_SignatureMessage ==
    ~Unsigned =>
       /\ Split(signMsg, "|") =
             <<"v2", signIn.deviceId, "cli", "backend", signIn.role,
               Join(signIn.scopes, ","), ToString(signIn.signedAtMs),
               IF signIn.token = Null THEN "" ELSE signIn.token,
               IF signIn.nonce = Null THEN "" ELSE signIn.nonce>>
       /\ (signIn \in {[DefaultSignInput EXCEPT !.token = t] : t \in {Null, ""}})
             => signMsg = "v2|d1|cli|backend|operator|a,b|1000||n1"

\* the message was built for d1, operator, scopes a and b, 1000, no token
\* and nonce n1
C20_Witness ==
    /\ signIn = DefaultSignInput
    /\ signMsg = "v2|d1|cli|backend|operator|a,b|1000||n1"

\* handling transcription t starts a query
StartsQuery(t) == HandleTranscription(app, t).queries > app.queries

\* C21: queryOpenClaw tries the gateway first and falls back to the CLI for
\* that request only: within one query the CLI is started exactly once if
\* sendMessage() rejects and not at all if it resolves, in which case the
\* text of the gateway is what the query returns; and a failure never
\* disables the gateway: every later query tries the gateway again.
C21_GatewayFirstCliOnce ==
    /\ app.useGateway
    /\ app.cliCalls <= 1
    /\ app.query = "gateway" =>
          /\ app.cliCalls = 0 /\ app.gatewayCalls = 1
          /\ OnGatewayFailure(app).query = "cli"
          /\ OnGatewayFailure(app).cliCalls = 1
          /\ \A text \in ReplyTexts :
                /\ OnResponse(app, text).cliCalls = 0
                /\ OnResponse(app, text).query = "none"
                /\ OnResponse(app, text).displayed = DisplayText(text)
    /\ app.query = "cli" =>
          /\ app.cliCalls = 1
          /\ \A text \in ReplyTexts : OnResponse(app, text).cliCalls = 1
    /\ \A t \in Transcriptions :
          StartsQuery(t) =>
             LET A1 == HandleTranscription(app, t)
             IN (A1.query = "gateway" /\ A1.gatewayCalls = 1) \/ A1.threw

\* a query is waiting for the gateway although the gateway failed an
\* earlier query, which the CLI answered
C21_Witness ==
    /\ app.gatewayFailures > 0
    /\ app.queries = 2
    /\ app.query = "gateway"
    /\ app.gatewayClient

\* C22: a session only processes commands when activated: handling a
\* transcription starts a query only if the transcription is final and not
\* blank and the session is LISTENING when it is handled; in IDLE no
\* transcription starts a query, and the only change a transcription makes to
\* an IDLE session is the move to LISTENING on a wake word.
C22_QueriesOnlyWhenListening ==
    \A t \in Transcriptions :
       LET A1 == HandleTranscription(app, t)
       IN /\ StartsQuery(t) => (t.isFinal /\ ~t.blank /\ app.state = "LISTENING")
          /\ A1.query # app.query => StartsQuery(t)
          /\ app.state = "IDLE" =>
                /\ ~StartsQuery(t)
                /\ A1.state \in {"IDLE", "LISTENING"}
                /\ A1.state = "LISTENING" => (t.wake /\ t.isFinal /\ ~t.blank)
                /\ A1.state = "IDLE" => A1 = app

\* a session that the wake word of a speaker activated has taken a command
\* and waits for the answer
C22_Witness ==
    /\ app.state = "PROCESSING"
    /\ app.query = "gateway"
    /\ app.activeSpeakerId # 0
    /\ app.displayed = HeardText

\* C23: auto-sleep.  A session that is LISTENING always has its auto-sleep
\* timer armed, the timer firing in LISTENING moves the session to IDLE, and
\* so a session that is LISTENING leaves LISTENING: by a command that starts
\* processing, by a sleep word, or by the timer.
C23_AutoSleep ==
    /\ [](app.state = "LISTENING" => app.autoSleepTimer)
    /\ [](app.state = "LISTENING" => OnAutoSleepTimer(app).state = "IDLE")
    /\ (app.state = "LISTENING") ~> (app.state # "LISTENING")

\* the timer has put to sleep a session that had finished a command
C23_Witness ==
    /\ app.state = "IDLE"
    /\ app.displayed = AutoSleepText
    /\ ~app.autoSleepTimer
    /\ app.queries > 0

\* C24: loadOrCreateDeviceIdentity() fails open.  Whatever the identity file
\* is (missing, unreadable, corrupt) and whether or not the identity
\* directory can be written, the call of loadOrCreateDeviceIdentity() made
\* for a query has not thrown, and a client has been constructed.
C24_IdentityFailsOpen ==
    app.queries > 0 => (~app.threw /\ app.gatewayClient)

\* the first query of a session with no usable identity file and an identity
\* directory that cannot be written: the constructor threw, the CLI answers
C24_ThrewToCaller ==
    /\ app.threw
    /\ app.deviceFile # "valid"
    /\ app.storage = "readonly"
    /\ ~app.gatewayClient
    /\ app.query = "cli"

\* C25: the text displayed for an AI response is at most MAX_RESPONSE_LENGTH
\* characters long, for every response that can complete the query in flight,
\* and a response within the limit is displayed unchanged.
C25_DisplayedWithinLimit ==
    app.query # "none" =>
       \A text \in ReplyTexts :
          /\ Len(OnResponse(app, text).displayed) <= MAX_RESPONSE_LENGTH
          /\ Len(text) <= MAX_RESPONSE_LENGTH => OnResponse(app, text).displayed = text

\* a truncated response is on the display
C25_TooLong ==
    /\ Len(app.displayed) = MAX_RESPONSE_LENGTH + 3
    /\ app.query = "none"
    /\ app.state = "LISTENING"

\* C26: in every reachable state in which the client is connected,
\* reconnectAttempts is 0, whichever path established the connection.
C26_ConnectedMeansNoAttempts ==
    connected => reconnectAttempts = 0

\* a connection is established while the attempt counter is above zero
C26_ConnectedWithAttempts ==
    /\ connected
    /\ reconnectAttempts > 0
    /\ ws # 0 /\ sock[ws] = "open" /\ prom[ws] = "resolved"
    /\ reconnTimers = 1

\* C27: at most one reconnect timer is pending in every reachable state, a
\* reconnect callback that awaits connect() counting as the pending cycle;
\* and a 'close' event handled while reconnecting is true schedules nothing.
C27_OneReconnectTimer ==
    /\ reconnTimers + SumOver(fnAwait, Sockets) <= 1
    /\ reconnTimers + SumOver(fnAwait, Sockets) = 1 => reconnecting
    /\ \A s \in Sockets :
          (sock[s] \in {"open", "closing", "errored"} /\ reconnecting) =>
             /\ CloseHandler(Cur, s).reconnTimers = reconnTimers
             /\ CloseHandler(Cur, s).reconnectAttempts = reconnectAttempts

\* the 'close' of one socket has scheduled a reconnect, and another socket is
\* about to close while that reconnect is pending
C27_Witness ==
    /\ reconnecting
    /\ reconnTimers = 1
    /\ \E s \in Sockets : sock[s] = "closed"
    /\ \E s \in Sockets : sock[s] \in {"open", "closing", "errored"}

\* C28: no request envelope ('connect' or 'chat.send') is written to a socket
\* before a connect.challenge has been received on that socket: every request
\* and every chat.send that is on a socket is on a challenged socket, and so
\* is the request that the handler of a challenge writes.
C28_NoRequestBeforeChallenge ==
    /\ \A r \in Reqs : reqs[r].sentOn # 0 => reqs[r].sentOn \in challenged
    /\ \A c \in Calls : calls[c].sent # 0 => calls[c].sent \in challenged
    /\ \A s \in Sockets :
          (Live(Cur, s) /\ CanSend(Cur) /\ FreeReq(Cur) # {}) =>
             LET S1 == ChallengeFrom(Cur, s)
             IN \A r \in Reqs : S1.reqs[r].sentOn # 0 => S1.reqs[r].sentOn \in S1.challenged

\* a chat.send has been written to the socket on which the challenge was
\* answered by a 'connect' request
C28_Witness ==
    \E c \in Calls, r \in Reqs :
       /\ calls[c].sent # 0
       /\ calls[c].sent \in challenged
       /\ reqs[r].state = "settled"
       /\ reqs[r].sentOn = calls[c].sent

\* C29: after connect() is rejected with the pairing-required error the
\* client starts no authentication attempt by itself: the rejection schedules
\* no reconnect, and neither does what the client does next on its own with
\* that attempt (its 15 s timer and the 'close' of its socket).
C29_NoRetryAfterPairingRequired ==
    \A r \in Reqs, res \in Responses :
       (reqs[r].state = "pending" /\ Live(Cur, reqs[r].sentOn) /\ ~res.ok
          /\ Includes(RequestOutcome(res), "NOT_PAIRED")) =>
          LET a == reqs[r].owner
              S1 == Wake(Cur, handleMessage(Cur, r, res))
              S2 == Wake(S1, ConnectTimeoutFrom(S1, a))
              S3 == CloseHandler(S2, reqs[r].sentOn)
          IN S1.prom[a] = PairingRequired =>
                /\ S1.reconnTimers = reconnTimers
                /\ S1.reconnecting = reconnecting
                /\ a \in S1.connTimers => S3.reconnTimers = reconnTimers

\* an attempt was rejected with the pairing-required error and a reconnect
\* timer is pending
C29_RetryScheduled ==
    \E a \in Sockets :
       /\ prom[a] = PairingRequired
       /\ reconnecting
       /\ reconnTimers = 1

\* C30: the pairing token is read again at every handshake.  The 'connect'
\* request written for a challenge carries, in auth.token and in the eighth
\* field of its signature message, the token that device-auth.json holds when
\* the challenge is handled (undefined and the empty string when it holds
\* none); and every request carries the same token in both places.
C30_TokenReadAtEveryHandshake ==
    /\ \A s \in Sockets :
          (Live(Cur, s) /\ s \notin challenged /\ CanSend(Cur) /\ FreeReq(Cur) # {}) =>
             LET q == ChallengeFrom(Cur, s).reqs[MinOf(FreeReq(Cur))]
             IN /\ q.state = "pending"
                /\ q.token = (IF tokenFile \in {Null, ""} THEN Null ELSE tokenFile)
                /\ Len(Split(q.signed, "|")) = 9
                /\ Split(q.signed, "|")[8] = OrEmpty(tokenFile)
                /\ Split(q.signed, "|")[9] = ChallengeNonce(s)
    /\ \A r \in Reqs :
          reqs[r].state # "none" => Split(reqs[r].signed, "|")[8] = OrEmpty(reqs[r].token)

\* the client was constructed without a token; the handshake of an attempt
\* made by a reconnect callback has sent and signed the token stored since
C30_Witness ==
    \E r \in Reqs :
       /\ reqs[r].state = "pending"
       /\ reqs[r].token = "t1"
       /\ Split(reqs[r].signed, "|")[8] = "t1"
       /\ reconnectAttempts > 0
       /\ fnAwait[reqs[r].owner] = 1

\* the closure of a call without the record of the session keys it has seen
Closure(cl) == [cl EXCEPT !.foreign = FALSE]

\* C31: the runId is the only matching key.  An event whose payload.runId is
\* the runId of a call with a registered eventHandler is applied to that call
\* whatever session key it carries: the effect is the one of the same event
\* with any other session key, an assistant text becomes fullText, a 'final'
\* completes the call; an event of another run changes nothing.
C31_RunIdOnly ==
    \A c \in Calls, ev \in Events :
       LET cl == calls[c]
           s == cl.listener
           after == EventFrom(Cur, s, ev).calls[c]
       IN (Live(Cur, s) /\ cl.runId # 0) =>
             /\ ev.runId # cl.runId => after = cl
             /\ ev.runId = cl.runId =>
                   /\ \A k \in EventKeys :
                         Closure(EventFrom(Cur, s, [ev EXCEPT !.sessionKey = k]).calls[c])
                            = Closure(after)
                   /\ (ev.event = "agent" /\ ev.stream = "assistant" /\ ev.text # "")
                         => after.fullText = ev.text
                   /\ (ev.event = "chat" /\ ev.state = "final") =>
                         /\ after.completed /\ after.listener = 0 /\ ~after.timer
                         /\ cl.outcome = "pending" =>
                               (after.outcome = "resolved"
                                  /\ after.result = FinalResult(cl.fullText))

\* a call has resolved with a text, and an event that carried another session
\* key than the client's was applied to it
C31_Witness ==
    \E c \in Calls :
       /\ calls[c].pc = "returned"
       /\ calls[c].outcome = "resolved"
       /\ calls[c].result = "AB"
       /\ calls[c].foreign

\* C32: the queries of a session never overlap.  At most one queryOpenClaw
\* call is in flight, exactly when the session is PROCESSING; a transcription
\* handled while one is in flight starts no other, whatever it says.
C32_OneQueryInFlight ==
    /\ app.inFlight <= 1
    /\ app.inFlight = 1 <=> app.state = "PROCESSING"
    /\ app.inFlight = 1 <=> app.query # "none"
    /\ \A t \in Transcriptions :
          /\ StartsQuery(t) => app.inFlight = 0
          /\ app.inFlight = 1 => HandleTranscription(app, t) = app

\* the second command of a session is in flight, alone
C32_Witness ==
    /\ app.inFlight = 1
    /\ app.queries = 2
    /\ app.state = "PROCESSING"

\* C33: a final, non-empty transcription that arrives while the session is
\* PROCESSING makes the handler show 'Please wait...' and starts no second
\* query (taken for the transcriptions that are no noise and that the speaker
\* lock lets through).
C33_PleaseWait ==
    app.state = "PROCESSING" =>
       \A t \in Transcriptions :
          (t.isFinal /\ ~t.blank /\ ~t.noise /\ t.mode = "conversation") =>
             /\ HandleTranscription(app, t).displayed = WaitText
             /\ ~StartsQuery(t)

\* a session that is PROCESSING a command, the text it heard on the display
C33_Processing ==
    /\ app.state = "PROCESSING"
    /\ app.inFlight = 1
    /\ app.displayed = HeardText
    /\ \A t \in Transcriptions : HandleTranscription(app, t).displayed # WaitText

\* C34: every session that enters PROCESSING returns to LISTENING, whatever
\* the gateway connection does.
C34_ProcessingEnds ==
    (app.state = "PROCESSING") ~> (app.state = "LISTENING")

\* the session is PROCESSING and the sendMessage() call of its query is
\* suspended on a promise of connect() that nothing settles
C34_StuckProcessing ==
    /\ app.state = "PROCESSING"
    /\ app.query = "gateway"
    /\ app.call # 0
    /\ calls[app.call].pc = "awaitConnect"
    /\ calls[app.call].awaiting = 0

\* the state and the timer of a session
Edge(A) == <<A.state, A.autoSleepTimer>>

\* C35: SessionStateMachine changes state only along its guarded edges.  In
\* every reachable state of a session, activate succeeds exactly from IDLE and
\* leads to LISTENING, startProcessing exactly from LISTENING to PROCESSING,
\* finishProcessing exactly from PROCESSING to LISTENING, deactivate exactly
\* from LISTENING or PROCESSING to IDLE; refused, or called for an unknown
\* session id, the operation returns false and leaves the state and the
\* auto-sleep timer as they were.
C35_GuardedEdges ==
    \A known \in BOOLEAN, speakerId \in Speakers, reason \in {"manual", "auto"} :
       LET a == activate(app, known, speakerId)
           d == deactivate(app, known, reason)
           sp == startProcessing(app, known)
           fp == finishProcessing(app, known)
       IN /\ a.ok <=> (known /\ app.state = "IDLE")
          /\ a.ok => a.data.state = "LISTENING"
          /\ sp.ok <=> (known /\ app.state = "LISTENING")
          /\ sp.ok => sp.data.state = "PROCESSING"
          /\ fp.ok <=> (known /\ app.state = "PROCESSING")
          /\ fp.ok => fp.data.state = "LISTENING"
          /\ d.ok <=> (known /\ app.state \in {"LISTENING", "PROCESSING"})
          /\ d.ok => d.data.state = "IDLE"
          /\ \A r \in {a, d, sp, fp} : ~r.ok => Edge(r.data) = Edge(app)

\* a session that is LISTENING with its timer armed after a command: there
\* activate and finishProcessing are refused, the other two are not
C35_Witness ==
    /\ app.state = "LISTENING"
    /\ app.autoSleepTimer
    /\ app.queries > 0
    /\ ~activate(app, TRUE, 1).ok
    /\ ~finishProcessing(app, TRUE).ok
    /\ startProcessing(app, TRUE).ok

\* C36: the 15 s timer of a connection attempt affects only that attempt:
\* when it fires, the promise and the socket of every other attempt are what
\* they were.
C36_TimerOfItsAttempt ==
    \A a \in connTimers :
       LET S1 == ConnectTimeoutFrom(Cur, a)
       IN \A s \in Sockets \ {a} :
             /\ S1.sock[s] = sock[s]
             /\ S1.prom[s] = prom[s]

\* the timer of an earlier attempt is armed while a later attempt, not yet
\* authenticated, owns the current socket
C36_StaleTimer ==
    \E a \in connTimers :
       /\ ws \notin {0, a}
       /\ ~connected
       /\ sock[ws] \in {"connecting", "open"}
       /\ prom[ws] = "pending"
       /\ ConnectTimeoutFrom(Cur, a).sock[ws] \in {"failing", "closing"}

\* C37: a 'close' event of a socket that is no longer the current one leaves
\* the current connection alone: the handler keeps this.ws, this.connectPromise
\* and this.connected as they are and rejects no request sent on the current
\* socket.
C37_StaleCloseLeavesCurrent ==
    \A s \in Sockets :
        (Cur.sock[s] \in {"open", "closing", "errored"} /\ Cur.ws # 0 /\ Cur.ws # s) =>
            LET S1 == CloseHandler(Cur, s)
            IN /\ S1.ws = Cur.ws
               /\ S1.connectPromise = Cur.connectPromise
               /\ S1.connected = Cur.connected
               /\ \A r \in Reqs :
                      (Cur.reqs[r].sentOn = Cur.ws /\ Cur.reqs[r].state = "pending")
                          => S1.reqs[r].state = "pending"

\* the old socket, closed by close(), has its 'close' event still to come while
\* connect() has made a new socket on which the connect request is pending
C37_StaleClose ==
    \E s \in Sockets :
        /\ Cur.sock[s] \in {"open", "closing", "errored"} /\ Cur.ws # 0 /\ Cur.ws # s
        /\ \E r \in Reqs : Cur.reqs[r].sentOn = Cur.ws /\ Cur.reqs[r].state = "pending"


\* C38: the chat.send request of a query of session S carries the session key
\* 'glasses-S', also when the queries of two sessions interleave on the shared
\* client.
C38_KeyOfItsSession ==
    \A c \in Calls :
        (calls[c].sent # 0 /\ calls[c].session # 0)
            => calls[c].sentKey = SessionKey(calls[c].session)

\* a query whose chat.send went out under the key of another session
C38_KeyOfOtherSession ==
    \E c \in Calls, k \in Sessions :
        /\ calls[c].sent # 0
        /\ calls[c].session # 0 /\ calls[c].session # k
        /\ calls[c].sentKey = SessionKey(k)


\* C39: after close() the client schedules no reconnect timer and opens no new
\* socket by itself: the 'close' event of the socket that close() closed
\* leaves the reconnect timers as they are, and no timer is left to open one.
C39_ClosedStaysClosed ==
    \A s \in Sockets :
        (Cur.sock[s] = "closing" /\ Cur.ws = 0 /\ ~Cur.connected) =>
            LET S1 == CloseHandler(Cur, s)
            IN /\ S1.reconnTimers = Cur.reconnTimers
               /\ S1.reconnTimers = 0

\* close() was called on an open socket, whose 'close' event is still to come,
\* and no reconnect is under way
C39_Closed ==
    \E s \in Sockets :
        /\ Cur.sock[s] = "closing" /\ Cur.ws = 0 /\ ~Cur.connected
        /\ ~Cur.reconnecting /\ Cur.reconnTimers = 0


\* C40: no firing of an auto-sleep timer moves the session from PROCESSING to
\* IDLE, whether the timer was armed on the current session data or on data
\* that createSession() has replaced since.
C40_NoSleepWhileProcessing ==
    app.state = "PROCESSING" =>
        /\ app.autoSleepTimer => OnAutoSleepTimer(app).state = "PROCESSING"
        /\ app.oldTimers > 0 => OnOldAutoSleepTimer(app).state = "PROCESSING"

\* a command is being processed while the timer of a replaced session data is
\* still armed
C40_OldTimerWhileProcessing == app.state = "PROCESSING" /\ app.oldTimers > 0

====
